---- MODULE Spec2Model ----
(***************************************************************************)
(* Survey flow engine of the Nasiya Savdo survey bot (src/main.py).        *)
(*                                                                         *)
(* One respondent's conversation is modelled: the per-user dictionary      *)
(* ctx.user_data and the ConversationHandler state of that user.  What a   *)
(* handler emits is part of its result.  Every handler is one action; the  *)
(* handler's whole body, with the send_question / finalize calls it makes, *)
(* is evaluated inside the action.  A second respondent, with a dictionary *)
(* and a conversation state of their own, acts in SpecTwo only.            *)
(*                                                                         *)
(* Conventions                                                             *)
(*   - Python dictionaries are functions with a varying DOMAIN; d.get(k,v) *)
(*     is Get(d, k, v), d[k] = v is Put(d, k, v).                          *)
(*   - Python indices are 0-based, sequences here 1-based: survey[i] of    *)
(*     the source is survey[i + 1] here; q_index keeps the source's value. *)
(*   - Callback data is the sequence of its ":"-separated fields           *)
(*     ("ans:gender:1" is <<"ans", "gender", "1">>).                       *)
(*   - Cyrillic labels are transliterated to ASCII (the Russian "yes" is   *)
(*     "Da", the "other" marker is "Drugoe"); the transliteration is       *)
(*     injective on the labels of the source and commutes with lower().    *)
(*   - Question prompts are display-only and are left out; a section       *)
(*     header keeps the translation key it is sent with.                   *)
(*   - The three persistence writes of finalize may each fail, and so may  *)
(*     the acknowledgment finalize sends before it clears the session (a   *)
(*     telegram error ends the handler there).  The other calls to the     *)
(*     Telegram API (answer, reply_text, edit_reply_markup, the question   *)
(*     and section messages) are taken to succeed.                         *)
(***************************************************************************)
EXTENDS Integers, Sequences, FiniteSets, TLC

VARIABLES
    user_data,    \* ctx.user_data of the respondent
    conv,         \* the respondent's ConversationHandler state
    dispatched,   \* finalize calls since the last Start (on_go_start)
    presented,    \* section headers and questions sent since the last Start
    peer          \* ctx.user_data and conversation state of a second respondent

vars == <<user_data, conv, dispatched, presented, peer>>

------------------------------------------------------------------------------
(* Dictionaries *)

EmptyDict == [k \in {} |-> ""]

Get(d, k, dflt) == IF k \in DOMAIN d THEN d[k] ELSE dflt

Put(d, k, v) == [x \in (DOMAIN d) \cup {k} |-> IF x = k THEN v ELSE d[x]]

Del(d, k) == [x \in (DOMAIN d) \ {k} |-> d[x]]

------------------------------------------------------------------------------
(* Static definitions of the source *)

LANGS == {"uz", "ru", "en"}

NoOptions == [l \in {} |-> << >>]

YESNO ==
    [uz |-> <<"Ha", "Yo'q">>, ru |-> <<"Da", "Net">>, en |-> <<"Yes", "No">>]

SURVEY_PROFILE ==
  <<
    [id |-> "_section_1", kind |-> "section", text |-> "section_1",
     max_select |-> 7, has_other |-> FALSE, conditional_on |-> "", conditional_value_yes |-> FALSE, is_branch_question |-> FALSE,
     options |->
         NoOptions],
    [id |-> "region_city", kind |-> "region", text |-> "",
     max_select |-> 7, has_other |-> FALSE, conditional_on |-> "", conditional_value_yes |-> FALSE, is_branch_question |-> FALSE,
     options |->
         NoOptions],
    [id |-> "age_group", kind |-> "choice", text |-> "",
     max_select |-> 7, has_other |-> FALSE, conditional_on |-> "", conditional_value_yes |-> FALSE, is_branch_question |-> FALSE,
     options |->
         [uz |-> <<"18 yoshgacha", "18-25", "26-35", "36-45", "46-55", "55 dan yuqori">>,
          ru |-> <<"do 18", "18-25", "26-35", "36-45", "46-55", "starshe 55">>,
          en |-> <<"Under 18", "18-25", "26-35", "36-45", "46-55", "Above 55">>]],
    [id |-> "gender", kind |-> "choice", text |-> "",
     max_select |-> 7, has_other |-> FALSE, conditional_on |-> "", conditional_value_yes |-> FALSE, is_branch_question |-> FALSE,
     options |->
         [uz |-> <<"Erkak", "Ayol">>,
          ru |-> <<"Muzhchina", "Zhenshchina">>,
          en |-> <<"Male", "Female">>]],
    [id |-> "employment", kind |-> "choice", text |-> "",
     max_select |-> 7, has_other |-> FALSE, conditional_on |-> "", conditional_value_yes |-> FALSE, is_branch_question |-> FALSE,
     options |->
         [uz |-> <<"Ishlaydi (rasmiy)", "Ishlaydi (norasmiy)", "Tadbirkor", "O'zini-o'zi band qilgan", "Talaba", "Nafaqada", "Ishsiz">>,
          ru |-> <<"Rabotayu (ofitsial'no)", "Rabotayu (neofitsial'no)", "Predprinimatel'", "Samozanyatyy(aya)", "Student(ka)", "Na pensii", "Bezrabotnyy(aya)">>,
          en |-> <<"Employed (formal)", "Employed (informal)", "Entrepreneur", "Self-employed", "Student", "Retired", "Unemployed">>]],
    [id |-> "income", kind |-> "choice", text |-> "",
     max_select |-> 7, has_other |-> FALSE, conditional_on |-> "", conditional_value_yes |-> FALSE, is_branch_question |-> FALSE,
     options |->
         [uz |-> <<"2 mln so'mgacha", "2-5 mln so'm", "5-10 mln so'm", "10-20 mln so'm", "20-50 mln so'm", "50 mln so'mdan yuqori">>,
          ru |-> <<"do 2 mln sum", "2-5 mln sum", "5-10 mln sum", "10-20 mln sum", "20-50 mln sum", "bolee 50 mln sum">>,
          en |-> <<"Up to 2 mln UZS", "2-5 mln UZS", "5-10 mln UZS", "10-20 mln UZS", "20-50 mln UZS", "Above 50 mln UZS">>]]
  >>

Q_EVER_USED ==
    [id |-> "ever_used", kind |-> "choice", text |-> "",
     max_select |-> 7, has_other |-> FALSE, conditional_on |-> "", conditional_value_yes |-> FALSE, is_branch_question |-> TRUE,
     options |->
         [uz |-> <<"Ha", "Yo'q">>,
          ru |-> <<"Da", "Net">>,
          en |-> <<"Yes", "No">>]]

SURVEY_NO_BRANCH ==
  <<
    [id |-> "_section_2_no", kind |-> "section", text |-> "section_2_no",
     max_select |-> 7, has_other |-> FALSE, conditional_on |-> "", conditional_value_yes |-> FALSE, is_branch_question |-> FALSE,
     options |->
         NoOptions],
    [id |-> "heard_before", kind |-> "choice", text |-> "",
     max_select |-> 7, has_other |-> FALSE, conditional_on |-> "", conditional_value_yes |-> FALSE, is_branch_question |-> FALSE,
     options |->
         [uz |-> <<"Ha", "Yo'q">>,
          ru |-> <<"Da", "Net">>,
          en |-> <<"Yes", "No">>]],
    [id |-> "trust_level", kind |-> "choice", text |-> "",
     max_select |-> 7, has_other |-> FALSE, conditional_on |-> "", conditional_value_yes |-> FALSE, is_branch_question |-> FALSE,
     options |->
         [uz |-> <<"Ha, ishonchim bor", "Qisman ishonaman", "Yo'q, ishonchim yo'q">>,
          ru |-> <<"Da, doveryayu", "Chastichno doveryayu", "Net, ne doveryayu">>,
          en |-> <<"Yes, I trust them", "Partially trust", "No, I don't trust them">>]],
    [id |-> "terms_understandable", kind |-> "choice", text |-> "",
     max_select |-> 7, has_other |-> FALSE, conditional_on |-> "", conditional_value_yes |-> FALSE, is_branch_question |-> FALSE,
     options |->
         [uz |-> <<"Ha, to'liq tushunarli", "Qisman tushunarli", "Yo'q, tushunarsiz">>,
          ru |-> <<"Da, polnost'yu ponyatny", "Chastichno ponyatny", "Net, neponyatny">>,
          en |-> <<"Yes, fully clear", "Partially clear", "No, unclear">>]],
    [id |-> "decision_factors", kind |-> "multi", text |-> "",
     max_select |-> 7, has_other |-> FALSE, conditional_on |-> "", conditional_value_yes |-> FALSE, is_branch_question |-> FALSE,
     options |->
         [uz |-> <<"Foiz stavkasi / qo'shimcha to'lovlar", "Kredit tarixi salbiy bo'lishiga qaramasdan, foydalana olish imkoniyati", "Moslashuvchan to'lov muddati", "Kompaniyaning ishonchliligi", "Rasmiylashtirishning osonligi", "Do'kon / mahsulot turi", "Tavsiyalar (do'stlar, oila)">>,
          ru |-> <<"Protsentnaya stavka / dop. platezhi", "Vozmozhnost' pol'zovat'sya dazhe s plokhoy kreditnoy istoriey", "Gibkiy srok oplaty", "Nadyozhnost' kompanii", "Prostota oformleniya", "Tip magazina / tovara", "Rekomendatsii (druz'ya, sem'ya)">>,
          en |-> <<"Interest rate / extra fees", "Ability to use despite bad credit history", "Flexible payment terms", "Company reliability", "Ease of application", "Store / product type", "Recommendations (friends, family)">>]],
    [id |-> "needed_sectors", kind |-> "multi", text |-> "",
     max_select |-> 10, has_other |-> FALSE, conditional_on |-> "", conditional_value_yes |-> FALSE, is_branch_question |-> FALSE,
     options |->
         [uz |-> <<"Elektronika", "Maishiy texnika", "Mebel va jihoz", "Qurilish va ta'mirlash", "Oziq-ovqat mahsulotlari", "Kiyim-kechak", "Sayohat / xizmatlar", "Avtomashina", "Ko'chmas mulk (turar / noturar joy)", "Boshqa">>,
          ru |-> <<"Ehlektronika", "Bytovaya tekhnika", "Mebel' i oborudovanie", "Stroitel'stvo i remont", "Produkty pitaniya", "Odezhda", "Puteshestviya / uslugi", "Avtomobil'", "Nedvizhimost'", "Drugoe">>,
          en |-> <<"Electronics", "Home appliances", "Furniture & equipment", "Construction & renovation", "Food products", "Clothing", "Travel / services", "Car", "Real estate", "Other">>]],
    [id |-> "nu_impulse_buying", kind |-> "choice", text |-> "",
     max_select |-> 7, has_other |-> FALSE, conditional_on |-> "", conditional_value_yes |-> FALSE, is_branch_question |-> FALSE,
     options |->
         [uz |-> <<"Ha", "Yo'q">>,
          ru |-> <<"Da", "Net">>,
          en |-> <<"Yes", "No">>]],
    [id |-> "nu_need_regulation", kind |-> "choice", text |-> "",
     max_select |-> 7, has_other |-> FALSE, conditional_on |-> "", conditional_value_yes |-> FALSE, is_branch_question |-> FALSE,
     options |->
         [uz |-> <<"Zarur", "Zarur emas", "Javob berishga qiynalaman">>,
          ru |-> <<"Nuzhno", "Ne nuzhno", "Zatrudnyayus' otvetit'">>,
          en |-> <<"Necessary", "Not necessary", "Hard to say">>]]
  >>

SURVEY_YES_BRANCH ==
  <<
    [id |-> "_section_2", kind |-> "section", text |-> "section_2",
     max_select |-> 7, has_other |-> FALSE, conditional_on |-> "", conditional_value_yes |-> FALSE, is_branch_question |-> FALSE,
     options |->
         NoOptions],
    [id |-> "freq_1y", kind |-> "choice", text |-> "",
     max_select |-> 7, has_other |-> FALSE, conditional_on |-> "", conditional_value_yes |-> FALSE, is_branch_question |-> FALSE,
     options |->
         [uz |-> <<"1 marta", "2 marta", "3 marta", "4 va undan ko'p">>,
          ru |-> <<"1 raz", "2 raza", "3 raza", "4 i bolee">>,
          en |-> <<"Once", "Twice", "3 times", "4 or more">>]],
    [id |-> "usage_duration", kind |-> "multi", text |-> "",
     max_select |-> 7, has_other |-> FALSE, conditional_on |-> "", conditional_value_yes |-> FALSE, is_branch_question |-> FALSE,
     options |->
         [uz |-> <<"1 oygacha", "3 oygacha", "6 oygacha", "12 oygacha", "18 oygacha", "24 oygacha", "24 oydan yuqori">>,
          ru |-> <<"do 1 mesyatsa", "do 3 mesyatsev", "do 6 mesyatsev", "do 12 mesyatsev", "do 18 mesyatsev", "do 24 mesyatsev", "bolee 24 mesyatsev">>,
          en |-> <<"Up to 1 month", "Up to 3 months", "Up to 6 months", "Up to 12 months", "Up to 18 months", "Up to 24 months", "Over 24 months">>]],
    [id |-> "company_name", kind |-> "multi", text |-> "",
     max_select |-> 11, has_other |-> TRUE, conditional_on |-> "", conditional_value_yes |-> FALSE, is_branch_question |-> FALSE,
     options |->
         [uz |-> <<"Alif nasiya", "Uzum nasiya", "TBC nasiya", "AllGood nasiya", "Texnomart", "Ishonch", "Mediapark", "Idea", "Yandex split", "Asaxiy", "Boshqa">>,
          ru |-> <<"Alif nasiya", "Uzum nasiya", "TBC nasiya", "AllGood nasiya", "Texnomart", "Ishonch", "Mediapark", "Idea", "Yandex split", "Asaxiy", "Drugoe">>,
          en |-> <<"Alif nasiya", "Uzum nasiya", "TBC nasiya", "AllGood nasiya", "Texnomart", "Ishonch", "Mediapark", "Idea", "Yandex split", "Asaxiy", "Other">>]],
    [id |-> "avg_purchase", kind |-> "choice", text |-> "",
     max_select |-> 7, has_other |-> FALSE, conditional_on |-> "", conditional_value_yes |-> FALSE, is_branch_question |-> FALSE,
     options |->
         [uz |-> <<"1 mln so'mgacha", "1-5 mln so'm", "6-10 mln so'm", "11-50 mln so'm", "50 mln so'mdan ortiq">>,
          ru |-> <<"do 1 mln sum", "1-5 mln sum", "6-10 mln sum", "11-50 mln sum", "bolee 50 mln sum">>,
          en |-> <<"Up to 1 mln UZS", "1-5 mln UZS", "6-10 mln UZS", "11-50 mln UZS", "Above 50 mln UZS">>]],
    [id |-> "product_types", kind |-> "multi", text |-> "",
     max_select |-> 10, has_other |-> FALSE, conditional_on |-> "", conditional_value_yes |-> FALSE, is_branch_question |-> FALSE,
     options |->
         [uz |-> <<"Elektronika", "Maishiy texnika", "Mebel va jihoz", "Qurilish va ta'mirlash", "Oziq-ovqat mahsulotlari", "Kiyim-kechak", "Sayohat / xizmatlar", "Avtomashina", "Ko'chmas mulk (turar / noturar joy)", "Boshqa">>,
          ru |-> <<"Ehlektronika", "Bytovaya tekhnika", "Mebel' i oborudovanie", "Stroitel'stvo i remont", "Produkty pitaniya", "Odezhda", "Puteshestviya / uslugi", "Avtomobil'", "Nedvizhimost'", "Drugoe">>,
          en |-> <<"Electronics", "Home appliances", "Furniture & equipment", "Construction & renovation", "Food products", "Clothing", "Travel / services", "Car", "Real estate", "Other">>]],
    [id |-> "_section_3", kind |-> "section", text |-> "section_3",
     max_select |-> 7, has_other |-> FALSE, conditional_on |-> "", conditional_value_yes |-> FALSE, is_branch_question |-> FALSE,
     options |->
         NoOptions],
    [id |-> "multi_company_use", kind |-> "choice", text |-> "",
     max_select |-> 7, has_other |-> FALSE, conditional_on |-> "", conditional_value_yes |-> FALSE, is_branch_question |-> FALSE,
     options |->
         [uz |-> <<"Ha", "Yo'q">>,
          ru |-> <<"Da", "Net">>,
          en |-> <<"Yes", "No">>]],
    [id |-> "income_share_percent", kind |-> "choice", text |-> "",
     max_select |-> 7, has_other |-> FALSE, conditional_on |-> "", conditional_value_yes |-> FALSE, is_branch_question |-> FALSE,
     options |->
         [uz |-> <<"10-25 foiz", "26-50 foiz", "51-100 foiz", "100 foizdan yuqori">>,
          ru |-> <<"10-25%", "26-50%", "51-100%", "bolee 100%">>,
          en |-> <<"10-25%", "26-50%", "51-100%", "Over 100%">>]],
    [id |-> "debt_burden_checked", kind |-> "choice", text |-> "",
     max_select |-> 7, has_other |-> FALSE, conditional_on |-> "", conditional_value_yes |-> FALSE, is_branch_question |-> FALSE,
     options |->
         [uz |-> <<"Ha", "Yo'q">>,
          ru |-> <<"Da", "Net">>,
          en |-> <<"Yes", "No">>]],
    [id |-> "_section_4", kind |-> "section", text |-> "section_4",
     max_select |-> 7, has_other |-> FALSE, conditional_on |-> "", conditional_value_yes |-> FALSE, is_branch_question |-> FALSE,
     options |->
         NoOptions],
    [id |-> "contract_terms_clear", kind |-> "choice", text |-> "",
     max_select |-> 7, has_other |-> FALSE, conditional_on |-> "", conditional_value_yes |-> FALSE, is_branch_question |-> FALSE,
     options |->
         [uz |-> <<"Ha", "Yo'q">>,
          ru |-> <<"Da", "Net">>,
          en |-> <<"Yes", "No">>]],
    [id |-> "total_cost_clear", kind |-> "choice", text |-> "",
     max_select |-> 7, has_other |-> FALSE, conditional_on |-> "", conditional_value_yes |-> FALSE, is_branch_question |-> FALSE,
     options |->
         [uz |-> <<"Ha", "Yo'q">>,
          ru |-> <<"Da", "Net">>,
          en |-> <<"Yes", "No">>]],
    [id |-> "schedule_given", kind |-> "choice", text |-> "",
     max_select |-> 7, has_other |-> FALSE, conditional_on |-> "", conditional_value_yes |-> FALSE, is_branch_question |-> FALSE,
     options |->
         [uz |-> <<"Ha", "Yo'q">>,
          ru |-> <<"Da", "Net">>,
          en |-> <<"Yes", "No">>]],
    [id |-> "_section_5", kind |-> "section", text |-> "section_5",
     max_select |-> 7, has_other |-> FALSE, conditional_on |-> "", conditional_value_yes |-> FALSE, is_branch_question |-> FALSE,
     options |->
         NoOptions],
    [id |-> "missed_payment", kind |-> "choice", text |-> "",
     max_select |-> 7, has_other |-> FALSE, conditional_on |-> "", conditional_value_yes |-> FALSE, is_branch_question |-> FALSE,
     options |->
         [uz |-> <<"Ha", "Yo'q">>,
          ru |-> <<"Da", "Net">>,
          en |-> <<"Yes", "No">>]],
    [id |-> "difficulty_reason", kind |-> "choice", text |-> "",
     max_select |-> 7, has_other |-> FALSE, conditional_on |-> "", conditional_value_yes |-> FALSE, is_branch_question |-> FALSE,
     options |->
         [uz |-> <<"Daromadning kamayishi", "Ish yo'qotilishi", "Oylik to'lov daromaddan yuqoriligi", "Narxlar oshishi", "Sog'liq bilan bog'liq sabablar", "Boshqa">>,
          ru |-> <<"Snizhenie dokhoda", "Poterya raboty", "Ezhemesyachnyy platyozh vyshe dokhoda", "Rost tsen", "Problemy so zdorov'em", "Drugoe">>,
          en |-> <<"Income decreased", "Job loss", "Monthly payment exceeds income", "Prices increased", "Health reasons", "Other">>]],
    [id |-> "borrowed_for_payments", kind |-> "choice", text |-> "",
     max_select |-> 7, has_other |-> FALSE, conditional_on |-> "", conditional_value_yes |-> FALSE, is_branch_question |-> FALSE,
     options |->
         [uz |-> <<"Ha", "Yo'q">>,
          ru |-> <<"Da", "Net">>,
          en |-> <<"Yes", "No">>]],
    [id |-> "cut_essential_spending", kind |-> "choice", text |-> "",
     max_select |-> 7, has_other |-> FALSE, conditional_on |-> "", conditional_value_yes |-> FALSE, is_branch_question |-> FALSE,
     options |->
         [uz |-> <<"Ha", "Yo'q">>,
          ru |-> <<"Da", "Net">>,
          en |-> <<"Yes", "No">>]],
    [id |-> "used_for_cash_need", kind |-> "choice", text |-> "",
     max_select |-> 7, has_other |-> FALSE, conditional_on |-> "", conditional_value_yes |-> FALSE, is_branch_question |-> FALSE,
     options |->
         [uz |-> <<"Ha", "Yo'q">>,
          ru |-> <<"Da", "Net">>,
          en |-> <<"Yes", "No">>]],
    [id |-> "_section_6", kind |-> "section", text |-> "section_6",
     max_select |-> 7, has_other |-> FALSE, conditional_on |-> "", conditional_value_yes |-> FALSE, is_branch_question |-> FALSE,
     options |->
         NoOptions],
    [id |-> "contact_methods", kind |-> "multi", text |-> "",
     max_select |-> 6, has_other |-> FALSE, conditional_on |-> "", conditional_value_yes |-> FALSE, is_branch_question |-> FALSE,
     options |->
         [uz |-> <<"SMS xabarnomasi", "Telefon qo'ng'iroqlari", "Mobil ilova orqali bildirishnoma", "Avtomatik hisobdan yechish (avtospisaniya)", "Tashqi kollektor", "Sud orqali">>,
          ru |-> <<"SMS-uvedomleniya", "Telefonnye zvonki", "Uvedomleniya v prilozhenii", "Avtospisanie", "Vneshniy kollektor", "Cherez sud">>,
          en |-> <<"SMS notifications", "Phone calls", "In-app notifications", "Auto-debit", "External collector", "Through court">>]],
    [id |-> "aggressive_collection", kind |-> "choice", text |-> "",
     max_select |-> 7, has_other |-> FALSE, conditional_on |-> "", conditional_value_yes |-> FALSE, is_branch_question |-> FALSE,
     options |->
         [uz |-> <<"Ha", "Yo'q">>,
          ru |-> <<"Da", "Net">>,
          en |-> <<"Yes", "No">>]],
    [id |-> "_section_7", kind |-> "section", text |-> "section_7",
     max_select |-> 7, has_other |-> FALSE, conditional_on |-> "", conditional_value_yes |-> FALSE, is_branch_question |-> FALSE,
     options |->
         NoOptions],
    [id |-> "complaint_submitted", kind |-> "choice", text |-> "",
     max_select |-> 7, has_other |-> FALSE, conditional_on |-> "", conditional_value_yes |-> FALSE, is_branch_question |-> FALSE,
     options |->
         [uz |-> <<"Ha", "Yo'q">>,
          ru |-> <<"Da", "Net">>,
          en |-> <<"Yes", "No">>]],
    [id |-> "complaint_reason", kind |-> "multi", text |-> "",
     max_select |-> 5, has_other |-> FALSE, conditional_on |-> "complaint_submitted", conditional_value_yes |-> TRUE, is_branch_question |-> FALSE,
     options |->
         [uz |-> <<"Yashirin to'lovlar va jarimalar", "Mijoz roziligisiz to'lov muddati yoki summaning o'zgartirilishi", "Mijoz ma'lumotlarining roziligisiz uchinchi shaxsga berilishi", "Mijoz hisobidan ruxsatsiz pul yechilishi", "Boshqa">>,
          ru |-> <<"Skrytye platezhi i shtrafy", "Izmenenie sroka/summy platezha bez soglasiya klienta", "Peredacha dannykh klienta tret'im litsam bez soglasiya", "Spisanie sredstv so schyota bez razresheniya klienta", "Drugoe">>,
          en |-> <<"Hidden fees and penalties", "Payment term/amount changed without client consent", "Client data shared with third parties without consent", "Funds deducted from account without permission", "Other">>]],
    [id |-> "complaint_resolved", kind |-> "choice", text |-> "",
     max_select |-> 7, has_other |-> FALSE, conditional_on |-> "complaint_submitted", conditional_value_yes |-> TRUE, is_branch_question |-> FALSE,
     options |->
         [uz |-> <<"Ha", "Yo'q">>,
          ru |-> <<"Da", "Net">>,
          en |-> <<"Yes", "No">>]],
    [id |-> "_section_8", kind |-> "section", text |-> "section_8",
     max_select |-> 7, has_other |-> FALSE, conditional_on |-> "", conditional_value_yes |-> FALSE, is_branch_question |-> FALSE,
     options |->
         NoOptions],
    [id |-> "impulse_buying", kind |-> "choice", text |-> "",
     max_select |-> 7, has_other |-> FALSE, conditional_on |-> "", conditional_value_yes |-> FALSE, is_branch_question |-> FALSE,
     options |->
         [uz |-> <<"Ha", "Yo'q">>,
          ru |-> <<"Da", "Net">>,
          en |-> <<"Yes", "No">>]],
    [id |-> "need_stricter_regulation", kind |-> "choice", text |-> "",
     max_select |-> 7, has_other |-> FALSE, conditional_on |-> "", conditional_value_yes |-> FALSE, is_branch_question |-> FALSE,
     options |->
         [uz |-> <<"Zarur", "Zarur emas", "Javob berishga qiynalaman">>,
          ru |-> <<"Nuzhno", "Ne nuzhno", "Zatrudnyayus' otvetit'">>,
          en |-> <<"Necessary", "Not necessary", "Hard to say">>]]
  >>

UZB_REGIONS ==
  <<
    [id |-> "qr", uz |-> "Qoraqalpog'iston R.", ru |-> "Respublika Karakalpakstan", en |-> "Republic of Karakalpakstan"],
    [id |-> "an", uz |-> "Andijon", ru |-> "Andizhanskaya", en |-> "Andijan"],
    [id |-> "bu", uz |-> "Buxoro", ru |-> "Bukharskaya", en |-> "Bukhara"],
    [id |-> "ji", uz |-> "Jizzax", ru |-> "Dzhizakskaya", en |-> "Jizzakh"],
    [id |-> "qa", uz |-> "Qashqadaryo", ru |-> "Kashkadar'inskaya", en |-> "Kashkadarya"],
    [id |-> "na", uz |-> "Navoiy", ru |-> "Navoiyskaya", en |-> "Navoi"],
    [id |-> "nm", uz |-> "Namangan", ru |-> "Namanganskaya", en |-> "Namangan"],
    [id |-> "sa", uz |-> "Samarqand", ru |-> "Samarkandskaya", en |-> "Samarkand"],
    [id |-> "su", uz |-> "Surxondaryo", ru |-> "Surkhandar'inskaya", en |-> "Surkhandarya"],
    [id |-> "si", uz |-> "Sirdaryo", ru |-> "Syrdar'inskaya", en |-> "Syrdarya"],
    [id |-> "ta", uz |-> "Toshkent vil.", ru |-> "Tashkentskaya obl.", en |-> "Tashkent Region"],
    [id |-> "tk", uz |-> "Toshkent shahri", ru |-> "g. Tashkent", en |-> "Tashkent City"],
    [id |-> "fa", uz |-> "Farg'ona", ru |-> "Ferganskaya", en |-> "Fergana"],
    [id |-> "xo", uz |-> "Xorazm", ru |-> "Khorezmskaya", en |-> "Khorezm"]
  >>

(* A field list without the region identifier *)
CSV_KEYS_answers_only ==
  <<
    "timestamp", "user_id", "username", "language",
    "region_city", "age_group", "gender",
    "employment", "income", "ever_used", "heard_before",
    "trust_level", "terms_understandable", "is_useful", "decision_factors",
    "would_use_if_better", "best_for_whom", "needed_sectors", "nu_impulse_buying",
    "nu_need_regulation", "freq_1y", "usage_duration", "company_name",
    "avg_purchase", "product_types", "multi_company_use", "income_share_percent",
    "debt_burden_checked", "contract_terms_clear", "total_cost_clear", "schedule_given",
    "missed_payment", "difficulty_reason", "borrowed_for_payments", "cut_essential_spending",
    "used_for_cash_need", "contact_methods", "aggressive_collection", "complaint_submitted",
    "complaint_reason", "complaint_resolved", "satisfaction_1_5", "recommend",
    "read_contract", "know_limit", "impulse_buying", "need_stricter_regulation"
  >>

CSV_KEYS ==
  <<
    "timestamp", "user_id", "username", "language",
    "region_city", "region_city_id", "age_group", "gender",
    "employment", "income", "ever_used", "heard_before",
    "trust_level", "terms_understandable", "is_useful", "decision_factors",
    "would_use_if_better", "best_for_whom", "needed_sectors", "nu_impulse_buying",
    "nu_need_regulation", "freq_1y", "usage_duration", "company_name",
    "avg_purchase", "product_types", "multi_company_use", "income_share_percent",
    "debt_burden_checked", "contract_terms_clear", "total_cost_clear", "schedule_given",
    "missed_payment", "difficulty_reason", "borrowed_for_payments", "cut_essential_spending",
    "used_for_cash_need", "contact_methods", "aggressive_collection", "complaint_submitted",
    "complaint_reason", "complaint_resolved", "satisfaction_1_5", "recommend",
    "read_contract", "know_limit", "impulse_buying", "need_stricter_regulation"
  >>

------------------------------------------------------------------------------
(* String conversions, tabulated over the strings the model uses *)

lower(s) ==
  CASE s = "1-5 mln UZS" -> "1-5 mln uzs"
    [] s = "10-20 mln UZS" -> "10-20 mln uzs"
    [] s = "11-50 mln UZS" -> "11-50 mln uzs"
    [] s = "2-5 mln UZS" -> "2-5 mln uzs"
    [] s = "20-50 mln UZS" -> "20-50 mln uzs"
    [] s = "5-10 mln UZS" -> "5-10 mln uzs"
    [] s = "6-10 mln UZS" -> "6-10 mln uzs"
    [] s = "Ability to use despite bad credit history" -> "ability to use despite bad credit history"
    [] s = "Above 50 mln UZS" -> "above 50 mln uzs"
    [] s = "Above 55" -> "above 55"
    [] s = "Acme Corp" -> "acme corp"
    [] s = "Alif nasiya" -> "alif nasiya"
    [] s = "AllGood nasiya" -> "allgood nasiya"
    [] s = "Andijan" -> "andijan"
    [] s = "Andijon" -> "andijon"
    [] s = "Andizhanskaya" -> "andizhanskaya"
    [] s = "Asaxiy" -> "asaxiy"
    [] s = "Auto-debit" -> "auto-debit"
    [] s = "Avtomashina" -> "avtomashina"
    [] s = "Avtomatik hisobdan yechish (avtospisaniya)" -> "avtomatik hisobdan yechish (avtospisaniya)"
    [] s = "Avtomobil'" -> "avtomobil'"
    [] s = "Avtospisanie" -> "avtospisanie"
    [] s = "Ayol" -> "ayol"
    [] s = "Bezrabotnyy(aya)" -> "bezrabotnyy(aya)"
    [] s = "Boshqa" -> "boshqa"
    [] s = "Bukhara" -> "bukhara"
    [] s = "Bukharskaya" -> "bukharskaya"
    [] s = "Buxoro" -> "buxoro"
    [] s = "Bytovaya tekhnika" -> "bytovaya tekhnika"
    [] s = "Car" -> "car"
    [] s = "Chastichno doveryayu" -> "chastichno doveryayu"
    [] s = "Chastichno ponyatny" -> "chastichno ponyatny"
    [] s = "Cherez sud" -> "cherez sud"
    [] s = "Client data shared with third parties without consent" -> "client data shared with third parties without consent"
    [] s = "Clothing" -> "clothing"
    [] s = "Company reliability" -> "company reliability"
    [] s = "Construction & renovation" -> "construction & renovation"
    [] s = "Da" -> "da"
    [] s = "Da, doveryayu" -> "da, doveryayu"
    [] s = "Da, polnost'yu ponyatny" -> "da, polnost'yu ponyatny"
    [] s = "Daromadning kamayishi" -> "daromadning kamayishi"
    [] s = "Do'kon / mahsulot turi" -> "do'kon / mahsulot turi"
    [] s = "Drugoe" -> "drugoe"
    [] s = "Dzhizakskaya" -> "dzhizakskaya"
    [] s = "Ease of application" -> "ease of application"
    [] s = "Ehlektronika" -> "ehlektronika"
    [] s = "Electronics" -> "electronics"
    [] s = "Elektronika" -> "elektronika"
    [] s = "Employed (formal)" -> "employed (formal)"
    [] s = "Employed (informal)" -> "employed (informal)"
    [] s = "Entrepreneur" -> "entrepreneur"
    [] s = "Erkak" -> "erkak"
    [] s = "External collector" -> "external collector"
    [] s = "Ezhemesyachnyy platyozh vyshe dokhoda" -> "ezhemesyachnyy platyozh vyshe dokhoda"
    [] s = "Farg'ona" -> "farg'ona"
    [] s = "Female" -> "female"
    [] s = "Fergana" -> "fergana"
    [] s = "Ferganskaya" -> "ferganskaya"
    [] s = "Flexible payment terms" -> "flexible payment terms"
    [] s = "Foiz stavkasi / qo'shimcha to'lovlar" -> "foiz stavkasi / qo'shimcha to'lovlar"
    [] s = "Food products" -> "food products"
    [] s = "Funds deducted from account without permission" -> "funds deducted from account without permission"
    [] s = "Furniture & equipment" -> "furniture & equipment"
    [] s = "Gibkiy srok oplaty" -> "gibkiy srok oplaty"
    [] s = "HA" -> "ha"
    [] s = "Ha" -> "ha"
    [] s = "Ha, ishonchim bor" -> "ha, ishonchim bor"
    [] s = "Ha, to'liq tushunarli" -> "ha, to'liq tushunarli"
    [] s = "Hard to say" -> "hard to say"
    [] s = "Health reasons" -> "health reasons"
    [] s = "Hidden fees and penalties" -> "hidden fees and penalties"
    [] s = "Home appliances" -> "home appliances"
    [] s = "Idea" -> "idea"
    [] s = "In-app notifications" -> "in-app notifications"
    [] s = "Income decreased" -> "income decreased"
    [] s = "Interest rate / extra fees" -> "interest rate / extra fees"
    [] s = "Ish yo'qotilishi" -> "ish yo'qotilishi"
    [] s = "Ishlaydi (norasmiy)" -> "ishlaydi (norasmiy)"
    [] s = "Ishlaydi (rasmiy)" -> "ishlaydi (rasmiy)"
    [] s = "Ishonch" -> "ishonch"
    [] s = "Ishsiz" -> "ishsiz"
    [] s = "Izmenenie sroka/summy platezha bez soglasiya klienta" -> "izmenenie sroka/summy platezha bez soglasiya klienta"
    [] s = "Javob berishga qiynalaman" -> "javob berishga qiynalaman"
    [] s = "Jizzakh" -> "jizzakh"
    [] s = "Jizzax" -> "jizzax"
    [] s = "Job loss" -> "job loss"
    [] s = "Kashkadar'inskaya" -> "kashkadar'inskaya"
    [] s = "Kashkadarya" -> "kashkadarya"
    [] s = "Khorezm" -> "khorezm"
    [] s = "Khorezmskaya" -> "khorezmskaya"
    [] s = "Kiyim-kechak" -> "kiyim-kechak"
    [] s = "Ko'chmas mulk (turar / noturar joy)" -> "ko'chmas mulk (turar / noturar joy)"
    [] s = "Kompaniyaning ishonchliligi" -> "kompaniyaning ishonchliligi"
    [] s = "Kredit tarixi salbiy bo'lishiga qaramasdan, foydalana olish imkoniyati" -> "kredit tarixi salbiy bo'lishiga qaramasdan, foydalana olish imkoniyati"
    [] s = "Maishiy texnika" -> "maishiy texnika"
    [] s = "Male" -> "male"
    [] s = "Mebel va jihoz" -> "mebel va jihoz"
    [] s = "Mebel' i oborudovanie" -> "mebel' i oborudovanie"
    [] s = "Mediapark" -> "mediapark"
    [] s = "Mijoz hisobidan ruxsatsiz pul yechilishi" -> "mijoz hisobidan ruxsatsiz pul yechilishi"
    [] s = "Mijoz ma'lumotlarining roziligisiz uchinchi shaxsga berilishi" -> "mijoz ma'lumotlarining roziligisiz uchinchi shaxsga berilishi"
    [] s = "Mijoz roziligisiz to'lov muddati yoki summaning o'zgartirilishi" -> "mijoz roziligisiz to'lov muddati yoki summaning o'zgartirilishi"
    [] s = "Mobil ilova orqali bildirishnoma" -> "mobil ilova orqali bildirishnoma"
    [] s = "Monthly payment exceeds income" -> "monthly payment exceeds income"
    [] s = "Moslashuvchan to'lov muddati" -> "moslashuvchan to'lov muddati"
    [] s = "Muzhchina" -> "muzhchina"
    [] s = "Na pensii" -> "na pensii"
    [] s = "Nadyozhnost' kompanii" -> "nadyozhnost' kompanii"
    [] s = "Nafaqada" -> "nafaqada"
    [] s = "Namangan" -> "namangan"
    [] s = "Namanganskaya" -> "namanganskaya"
    [] s = "Narxlar oshishi" -> "narxlar oshishi"
    [] s = "Navoi" -> "navoi"
    [] s = "Navoiy" -> "navoiy"
    [] s = "Navoiyskaya" -> "navoiyskaya"
    [] s = "Ne nuzhno" -> "ne nuzhno"
    [] s = "Necessary" -> "necessary"
    [] s = "Nedvizhimost'" -> "nedvizhimost'"
    [] s = "Net" -> "net"
    [] s = "Net, ne doveryayu" -> "net, ne doveryayu"
    [] s = "Net, neponyatny" -> "net, neponyatny"
    [] s = "No" -> "no"
    [] s = "No, I don't trust them" -> "no, i don't trust them"
    [] s = "No, unclear" -> "no, unclear"
    [] s = "Not necessary" -> "not necessary"
    [] s = "Nuzhno" -> "nuzhno"
    [] s = "O'zini-o'zi band qilgan" -> "o'zini-o'zi band qilgan"
    [] s = "Odezhda" -> "odezhda"
    [] s = "Once" -> "once"
    [] s = "Other" -> "other"
    [] s = "Over 100%" -> "over 100%"
    [] s = "Over 24 months" -> "over 24 months"
    [] s = "Oylik to'lov daromaddan yuqoriligi" -> "oylik to'lov daromaddan yuqoriligi"
    [] s = "Oziq-ovqat mahsulotlari" -> "oziq-ovqat mahsulotlari"
    [] s = "Partially clear" -> "partially clear"
    [] s = "Partially trust" -> "partially trust"
    [] s = "Payment term/amount changed without client consent" -> "payment term/amount changed without client consent"
    [] s = "Peredacha dannykh klienta tret'im litsam bez soglasiya" -> "peredacha dannykh klienta tret'im litsam bez soglasiya"
    [] s = "Phone calls" -> "phone calls"
    [] s = "Poterya raboty" -> "poterya raboty"
    [] s = "Predprinimatel'" -> "predprinimatel'"
    [] s = "Prices increased" -> "prices increased"
    [] s = "Problemy so zdorov'em" -> "problemy so zdorov'em"
    [] s = "Produkty pitaniya" -> "produkty pitaniya"
    [] s = "Prostota oformleniya" -> "prostota oformleniya"
    [] s = "Protsentnaya stavka / dop. platezhi" -> "protsentnaya stavka / dop. platezhi"
    [] s = "Puteshestviya / uslugi" -> "puteshestviya / uslugi"
    [] s = "Qashqadaryo" -> "qashqadaryo"
    [] s = "Qisman ishonaman" -> "qisman ishonaman"
    [] s = "Qisman tushunarli" -> "qisman tushunarli"
    [] s = "Qoraqalpog'iston R." -> "qoraqalpog'iston r."
    [] s = "Qurilish va ta'mirlash" -> "qurilish va ta'mirlash"
    [] s = "Rabotayu (neofitsial'no)" -> "rabotayu (neofitsial'no)"
    [] s = "Rabotayu (ofitsial'no)" -> "rabotayu (ofitsial'no)"
    [] s = "Rasmiylashtirishning osonligi" -> "rasmiylashtirishning osonligi"
    [] s = "Real estate" -> "real estate"
    [] s = "Recommendations (friends, family)" -> "recommendations (friends, family)"
    [] s = "Rekomendatsii (druz'ya, sem'ya)" -> "rekomendatsii (druz'ya, sem'ya)"
    [] s = "Republic of Karakalpakstan" -> "republic of karakalpakstan"
    [] s = "Respublika Karakalpakstan" -> "respublika karakalpakstan"
    [] s = "Retired" -> "retired"
    [] s = "Rost tsen" -> "rost tsen"
    [] s = "SMS notifications" -> "sms notifications"
    [] s = "SMS xabarnomasi" -> "sms xabarnomasi"
    [] s = "SMS-uvedomleniya" -> "sms-uvedomleniya"
    [] s = "Samarkand" -> "samarkand"
    [] s = "Samarkandskaya" -> "samarkandskaya"
    [] s = "Samarqand" -> "samarqand"
    [] s = "Samozanyatyy(aya)" -> "samozanyatyy(aya)"
    [] s = "Sayohat / xizmatlar" -> "sayohat / xizmatlar"
    [] s = "Self-employed" -> "self-employed"
    [] s = "Sirdaryo" -> "sirdaryo"
    [] s = "Skrytye platezhi i shtrafy" -> "skrytye platezhi i shtrafy"
    [] s = "Snizhenie dokhoda" -> "snizhenie dokhoda"
    [] s = "Sog'liq bilan bog'liq sabablar" -> "sog'liq bilan bog'liq sabablar"
    [] s = "Spisanie sredstv so schyota bez razresheniya klienta" -> "spisanie sredstv so schyota bez razresheniya klienta"
    [] s = "Store / product type" -> "store / product type"
    [] s = "Stroitel'stvo i remont" -> "stroitel'stvo i remont"
    [] s = "Student" -> "student"
    [] s = "Student(ka)" -> "student(ka)"
    [] s = "Sud orqali" -> "sud orqali"
    [] s = "Surkhandar'inskaya" -> "surkhandar'inskaya"
    [] s = "Surkhandarya" -> "surkhandarya"
    [] s = "Surxondaryo" -> "surxondaryo"
    [] s = "Syrdar'inskaya" -> "syrdar'inskaya"
    [] s = "Syrdarya" -> "syrdarya"
    [] s = "TBC nasiya" -> "tbc nasiya"
    [] s = "Tadbirkor" -> "tadbirkor"
    [] s = "Talaba" -> "talaba"
    [] s = "Tashkent City" -> "tashkent city"
    [] s = "Tashkent Region" -> "tashkent region"
    [] s = "Tashkentskaya obl." -> "tashkentskaya obl."
    [] s = "Tashqi kollektor" -> "tashqi kollektor"
    [] s = "Tavsiyalar (do'stlar, oila)" -> "tavsiyalar (do'stlar, oila)"
    [] s = "Telefon qo'ng'iroqlari" -> "telefon qo'ng'iroqlari"
    [] s = "Telefonnye zvonki" -> "telefonnye zvonki"
    [] s = "Texnomart" -> "texnomart"
    [] s = "Through court" -> "through court"
    [] s = "Tip magazina / tovara" -> "tip magazina / tovara"
    [] s = "Toshkent shahri" -> "toshkent shahri"
    [] s = "Toshkent vil." -> "toshkent vil."
    [] s = "Travel / services" -> "travel / services"
    [] s = "Twice" -> "twice"
    [] s = "Under 18" -> "under 18"
    [] s = "Unemployed" -> "unemployed"
    [] s = "Up to 1 mln UZS" -> "up to 1 mln uzs"
    [] s = "Up to 1 month" -> "up to 1 month"
    [] s = "Up to 12 months" -> "up to 12 months"
    [] s = "Up to 18 months" -> "up to 18 months"
    [] s = "Up to 2 mln UZS" -> "up to 2 mln uzs"
    [] s = "Up to 24 months" -> "up to 24 months"
    [] s = "Up to 3 months" -> "up to 3 months"
    [] s = "Up to 6 months" -> "up to 6 months"
    [] s = "Uvedomleniya v prilozhenii" -> "uvedomleniya v prilozhenii"
    [] s = "Uzum nasiya" -> "uzum nasiya"
    [] s = "Vneshniy kollektor" -> "vneshniy kollektor"
    [] s = "Vozmozhnost' pol'zovat'sya dazhe s plokhoy kreditnoy istoriey" -> "vozmozhnost' pol'zovat'sya dazhe s plokhoy kreditnoy istoriey"
    [] s = "Xorazm" -> "xorazm"
    [] s = "Yandex split" -> "yandex split"
    [] s = "Yashirin to'lovlar va jarimalar" -> "yashirin to'lovlar va jarimalar"
    [] s = "Yes" -> "yes"
    [] s = "Yes, I trust them" -> "yes, i trust them"
    [] s = "Yes, fully clear" -> "yes, fully clear"
    [] s = "Yo'q" -> "yo'q"
    [] s = "Yo'q, ishonchim yo'q" -> "yo'q, ishonchim yo'q"
    [] s = "Yo'q, tushunarsiz" -> "yo'q, tushunarsiz"
    [] s = "Zarur" -> "zarur"
    [] s = "Zarur emas" -> "zarur emas"
    [] s = "Zatrudnyayus' otvetit'" -> "zatrudnyayus' otvetit'"
    [] s = "Zhenshchina" -> "zhenshchina"
    [] s = "g. Tashkent" -> "g. tashkent"
    [] OTHER -> s

strip(s) ==
  CASE s = " " -> ""
    [] s = " Acme Corp " -> "Acme Corp"
    [] s = " 5 0 " -> "5 0"
    [] s = " 100" -> "100"
    [] OTHER -> s

(* s.replace(" ", "") on the stripped texts the model's inputs carry *)
replace_spaces(s) ==
  CASE s = "5 0" -> "50"
    [] s = "1 0 1" -> "101"
    [] s = "Acme Corp" -> "AcmeCorp"
    [] OTHER -> s

(* str.isdigit() and int() on the numerals the model's inputs carry *)
Numerals ==
  <<"0", "1", "2", "3", "4", "5", "6", "7", "8", "9", "10", "11", "12">>

isdigit(s) == s \in {"50", "99", "100", "101"} \/ \E k \in 1..Len(Numerals) : Numerals[k] = s

int(s) ==
  CASE s = "50" -> 50
    [] s = "99" -> 99
    [] s = "100" -> 100
    [] s = "101" -> 101
    [] s = "-1" -> -1
    [] OTHER -> (CHOOSE k \in 1..Len(Numerals) : Numerals[k] = s) - 1

(* int() raises ValueError on anything that is not an optionally signed numeral *)
int_ok(s) == isdigit(s) \/ s = "-1"

------------------------------------------------------------------------------
(* Helpers *)

(* list(SURVEY_PROFILE) + [Q_EVER_USED] and the two lists build_survey
   returns, built once *)
base == SURVEY_PROFILE \o <<Q_EVER_USED>>

(* A negative graph that ends with a question of the affirmative segment *)
survey_no_shares == base \o SURVEY_NO_BRANCH \o <<SURVEY_YES_BRANCH[2]>>

survey_no == base \o SURVEY_NO_BRANCH

survey_yes == base \o SURVEY_YES_BRANCH

(* A builder that puts the branch question once more before the negative
   segment *)
build_survey_repeats(branch) ==
  IF branch = "no" THEN base \o <<Q_EVER_USED>> \o SURVEY_NO_BRANCH ELSE survey_yes

build_survey(branch) == IF branch = "no" THEN survey_no ELSE survey_yes

get_lang(ud) == Get(ud, "lang", "uz")

get_survey(ud) == build_survey(Get(ud, "branch", "yes"))

(* q["options"].get(lang, q["options"].get("uz", [])) *)
options_of(q, lang) ==
  IF lang \in DOMAIN q.options THEN q.options[lang]
  ELSE IF "uz" \in DOMAIN q.options THEN q.options["uz"]
  ELSE << >>

(* r.get(lang, r["uz"]) for a region *)
(* A label that is the fallback language's, whatever the language *)
region_label_uz(r, lang) == r["uz"]

region_label(r, lang) == IF lang \in (DOMAIN r) \ {"id"} THEN r[lang] ELSE r["uz"]

yes_map(lang) ==
  CASE lang = "uz" -> {"ha"}
    [] lang = "ru" -> {"da"}
    [] lang = "en" -> {"yes"}
    [] OTHER -> {}

no_map(lang) ==
  CASE lang = "uz" -> {"yo'q", "yoq"}
    [] lang = "ru" -> {"net"}
    [] lang = "en" -> {"no"}
    [] OTHER -> {}

is_yes_answer(ans, lang) == lower(strip(ans)) \in yes_map(lang)

is_no_answer(ans, lang) == lower(strip(ans)) \in no_map(lang)

other_labels == {"boshqa", "drugoe", "other"}

AllQuestions == base \o SURVEY_NO_BRANCH \o SURVEY_YES_BRANCH

(* The answers that hold a list: those recorded by "mul_done" (and rewritten
   by the "other" text), i.e. the ids of the multi-select questions. *)
ListKeys == {AllQuestions[k].id : k \in {j \in 1..Len(AllQuestions) : AllQuestions[j].kind = "multi"}}

should_skip_conditional(q, answers, lang) ==
  IF q.conditional_on = "" THEN FALSE
  ELSE IF q.conditional_value_yes
       THEN IF q.conditional_on \in ListKeys /\ q.conditional_on \in DOMAIN answers
            THEN TRUE   \* str() of a list is never a yes label
            ELSE ~ is_yes_answer(Get(answers, q.conditional_on, ""), lang)
       ELSE FALSE

(* The buffer user_data["multi:<qid>"] is stored as list(selected) and only
   ever read back through normalize_multi_selection, which rebuilds the set:
   the stored value is kept as the set of its items.  The handlers store
   integers only. *)
normalize_multi_selection(selected_raw, options) ==
  {item \in selected_raw : 0 <= item /\ item < Len(options)}

multi_key(qid) ==
  CASE qid = "decision_factors" -> "multi:decision_factors"
    [] qid = "needed_sectors" -> "multi:needed_sectors"
    [] qid = "usage_duration" -> "multi:usage_duration"
    [] qid = "company_name" -> "multi:company_name"
    [] qid = "product_types" -> "multi:product_types"
    [] qid = "contact_methods" -> "multi:contact_methods"
    [] qid = "complaint_reason" -> "multi:complaint_reason"

(* normalize_number: None is modelled as -1 (the function returns no
   negative number: a sign is not a digit) *)
normalize_number_signless(s) ==
  LET t == replace_spaces(strip(s))
  IN  IF t = "-1" THEN 1 ELSE IF t = "" \/ ~ isdigit(t) THEN -1 ELSE int(t)

normalize_number(s) ==
  LET t == replace_spaces(strip(s))
  IN  IF t = "" \/ ~ isdigit(t) THEN -1 ELSE int(t)

(* sorted(selected) as a sequence *)
RECURSIVE sorted(_)
sorted(S) ==
  IF S = {} THEN << >>
  ELSE LET m == CHOOSE x \in S : \A y \in S : x <= y
       IN  <<m>> \o sorted(S \ {m})

(* One cell of the flat row, as the items that are joined with "; ":
   a missing key or None is the empty string (no item), a list its items,
   a scalar the one item str(v). *)
cell(row, k) ==
  IF k \notin DOMAIN row THEN << >>
  ELSE IF k \in ListKeys THEN row[k]
  ELSE <<row[k]>>

(* A writer that leaves out the cells that are empty *)
append_csv_compact(row) ==
  SelectSeq([n \in 1..Len(CSV_KEYS) |-> cell(row, CSV_KEYS[n])], LAMBDA c : c # << >>)

append_csv(row) == [n \in 1..Len(CSV_KEYS) |-> cell(row, CSV_KEYS[n])]

(* save_to_db binds every column but the timestamp, with to_str on the lists *)
save_to_db(data) == [n \in 1..(Len(CSV_KEYS) - 1) |-> cell(data, CSV_KEYS[n + 1])]

------------------------------------------------------------------------------
(* What a handler does: the dictionary it leaves, the messages it sent, the
   rows it handed to the persistence collaborators, how often it ran
   finalize, the dictionary finalize was entered with (empty when it did not
   run), and the exception that ended it ("" for none). *)

Eff(ud, msgs) ==
  [ud |-> ud, msgs |-> msgs, saved |-> << >>, fin |-> 0, entered |-> EmptyDict, err |-> ""]

Raise(ud, msgs, exc) ==
  [ud |-> ud, msgs |-> msgs, saved |-> << >>, fin |-> 0, entered |-> EmptyDict, err |-> exc]

(* e, preceded by the messages sent before it *)
After(msgs, e) == [e EXCEPT !.msgs = msgs \o @]

(* Outcomes of one finalize: db is save_to_db's result, csv whether
   append_csv returned, gs is "off" (GOOGLE_SHEET_NAME unset), "ok" or "err"
   (try_gs_save_row's result), ack whether send_message returned. *)
Outcomes == [db : BOOLEAN, csv : BOOLEAN, gs : {"off", "ok", "err"}, ack : BOOLEAN]

(* How often the acknowledgment may fail in one session *)
MaxAckFailures == 1

(* A finalize that lets the exception of the backup file write through *)
finalize_csv_raises(ud, pers) ==
  LET answers == Get(ud, "answers", EmptyDict)
      db  == <<[to |-> "db", ok |-> pers.db, row |-> save_to_db(answers)]>>
      csv == <<[to |-> "csv", ok |-> pers.csv, row |-> append_csv(answers)]>>
      gs  == IF pers.gs = "off" THEN << >>
             ELSE <<[to |-> "gs", ok |-> (pers.gs = "ok"), row |-> append_csv(answers)]>>
  IN  [ud    |-> IF pers.csv /\ pers.ack THEN EmptyDict ELSE ud,
       msgs  |-> IF pers.csv /\ pers.ack THEN << <<"text", "saved">> >> ELSE << >>,
       saved |-> IF pers.csv THEN db \o csv \o gs ELSE db \o csv,
       fin   |-> 1,
       entered |-> ud,
       err   |-> IF ~ pers.csv THEN "OSError" ELSE IF pers.ack THEN "" ELSE "TelegramError"]

finalize(ud, pers) ==
  LET answers == Get(ud, "answers", EmptyDict)
      db  == <<[to |-> "db", ok |-> pers.db, row |-> save_to_db(answers)]>>
      csv == <<[to |-> "csv", ok |-> pers.csv, row |-> append_csv(answers)]>>
      gs  == IF pers.gs = "off" THEN << >>
             ELSE <<[to |-> "gs", ok |-> (pers.gs = "ok"), row |-> append_csv(answers)]>>
  IN  [ud    |-> IF pers.ack THEN EmptyDict ELSE ud,
       msgs  |-> IF pers.ack THEN << <<"text", "saved">> >> ELSE << >>,
       saved |-> db \o csv \o gs,
       fin   |-> 1,
       entered |-> ud,
       err   |-> IF pers.ack THEN "" ELSE "TelegramError"]

(* The loop of send_question, on_callback and on_text over section markers
   and unmet conditional questions: the index it stops at. *)
skip_sections(survey, i, answers, lang) ==
  IF i < Len(survey) /\ survey[i + 1].kind = "section" THEN i + 1 ELSE i

RECURSIVE skip(_, _, _, _)
skip(survey, i, answers, lang) ==
  IF i >= Len(survey) THEN i
  ELSE LET q == survey[i + 1]
       IN  IF q.kind = "section" THEN skip(survey, i + 1, answers, lang)
           ELSE IF should_skip_conditional(q, answers, lang)
                THEN skip(survey, i + 1, answers, lang)
                ELSE i

section_messages_none(survey, i, j) == << >>

(* The section headers send_question emits while it moves from i to j *)
section_messages(survey, i, j) ==
  LET idx == sorted({k \in i..(j - 1) : survey[k + 1].kind = "section"})
  IN  [n \in 1..Len(idx) |-> <<"section", survey[idx[n] + 1].text>>]

(* q_index is written once per loop iteration; it is left as it was (also
   absent) when the loop does not iterate *)
after_skip(ud, i0, i) == IF i > i0 THEN Put(ud, "q_index", i) ELSE ud

(* A send_question that stops at the end of the graph without finalize *)
send_question_stops(ud0, pers) ==
  LET i0 == Get(ud0, "q_index", 0)
      i  == skip(get_survey(ud0), i0, Get(ud0, "answers", EmptyDict), get_lang(ud0))
      ud == after_skip(ud0, i0, i)
  IN  IF i >= Len(get_survey(ud0)) THEN Eff(ud, << >>)
      ELSE Eff(ud, << <<"question", get_survey(ud0)[i + 1].id>> >>)

(* send_question once its loop has moved from i0 to i *)
send_question_at(ud0, survey, i0, i, pers) ==
  IF i >= Len(survey)
  THEN After(section_messages(survey, i0, i), finalize(after_skip(ud0, i0, i), pers))
  ELSE Eff(after_skip(ud0, i0, i),
           section_messages(survey, i0, i) \o << <<"question", survey[i + 1].id>> >>)

send_question(ud0, pers) ==
  send_question_at(ud0, get_survey(ud0), Get(ud0, "q_index", 0),
                   skip(get_survey(ud0), Get(ud0, "q_index", 0),
                        Get(ud0, "answers", EmptyDict), get_lang(ud0)),
                   pers)

------------------------------------------------------------------------------
(* Handlers.  Each yields [eff, ret]: the effect and the conversation state
   the handler returns ("RAISE" when it ends by an exception, which leaves
   the conversation state as it was). *)

Ret(e, state) == [eff |-> e, ret |-> IF e.err = "" THEN state ELSE "RAISE"]

(* A /start that keeps the session *)
cmd_start_keeps(ud) == Ret(Eff(ud, << <<"text", "choose_lang">> >>), "LANG")

cmd_start(ud) == Ret(Eff(EmptyDict, << <<"text", "choose_lang">> >>), "LANG")

on_lang(ud, data) ==
  Ret(Eff(Put(ud, "lang", data[2]), << <<"text", "start">>, <<"text", "btn_start">> >>),
      "SURVEY_FLOW")

on_go_start(ud0, pers) ==
  Ret(send_question(
        Put(Put(Put(Put(ud0, "q_index", 0), "region_page", 0), "branch", "yes"),
            "answers",
            [k \in {"timestamp", "user_id", "username", "language"} |->
               CASE k = "timestamp" -> "utcnow"
                 [] k = "user_id" -> "user_id"
                 [] k = "username" -> "username"
                 [] k = "language" -> get_lang(ud0)]),
        pers),
      "SURVEY_FLOW")

(* ctx.user_data["answers"][k] = v: KeyError when there is no answers entry *)
has_answers(ud) == "answers" \in DOMAIN ud

set_answer(ud, k, v) == Put(ud, "answers", Put(ud["answers"], k, v))

region_by_id(rid) ==
  {k \in 1..Len(UZB_REGIONS) : UZB_REGIONS[k].id = rid}

(* opts.index(opt), 0-based *)
index_of(opts, opt) == (CHOOSE k \in 1..Len(opts) : opts[k] = opt /\ \A j \in 1..(k - 1) : opts[j] # opt) - 1

(* A toggle that adds the index whatever the size of the selection *)
toggled_uncapped(selected, idx, q) ==
  IF idx \in selected THEN selected \ {idx} ELSE selected \cup {idx}

toggled(selected, idx, q) ==
  IF idx \in selected THEN selected \ {idx}
  ELSE IF Cardinality(selected) < q.max_select THEN selected \cup {idx}
  ELSE selected

startswith(data, tag) == Len(data) >= 2 /\ data[1] = tag

min_of(S) == CHOOSE x \in S : \A y \in S : x <= y

(* The branch rebinding of on_callback: the tag from the answer's polarity,
   q_index to the node after ever_used in the rebuilt survey. *)
branch_of(ans, lang) == IF is_no_answer(ans, lang) THEN "no" ELSE "yes"

(* the j of the loop over new_survey: the indices where ever_used stands *)
ever_used_at(new_survey) ==
  {j \in 0..(Len(new_survey) - 1) : new_survey[j + 1].id = "ever_used"}

rebind(ud, ans, lang) ==
  IF ever_used_at(build_survey(branch_of(ans, lang))) = {}
  THEN Put(ud, "branch", branch_of(ans, lang))
  ELSE Put(Put(ud, "branch", branch_of(ans, lang)),
           "q_index", min_of(ever_used_at(build_survey(branch_of(ans, lang)))) + 1)

(* has_other_selected of "mul_done" *)
has_other_selected(selected_labels) ==
  \E n \in 1..Len(selected_labels) : lower(selected_labels[n]) \in other_labels

(* A replacement that appends the text instead *)
replace_other_appends(current_answers, msg) == current_answers \o <<msg>>

(* the replacement loop of on_text *)
replace_other(current_answers, msg) ==
  [n \in 1..Len(current_answers) |->
      IF lower(current_answers[n]) \in other_labels THEN msg ELSE current_answers[n]]

(* "ans": the answer ans is recorded for q = survey[i] *)
on_callback_ans(ud, pers, lang, i, q, ans) ==
  IF q.is_branch_question
  THEN Ret(send_question(rebind(set_answer(ud, q.id, ans), ans, lang), pers), "SURVEY_FLOW")
  ELSE Ret(send_question(Put(set_answer(ud, q.id, ans), "q_index", i + 1), pers), "SURVEY_FLOW")

(* "mul": the buffer after option field opt is toggled *)
on_callback_mul(selected, opt, q, opts) ==
  IF isdigit(opt) THEN toggled(selected, int(opt), q)
  ELSE IF \E k \in 1..Len(opts) : opts[k] = opt
       THEN toggled(selected, index_of(opts, opt), q)
       ELSE selected

(* [opts[idx] for idx in sorted(selected) if 0 <= idx < len(opts)] *)
selected_labels_in(order, opts) == [n \in 1..Len(order) |-> opts[order[n] + 1]]

selected_labels_descending(selected, opts) ==
  selected_labels_in([n \in 1..Cardinality(selected) |->
                        sorted(selected)[Cardinality(selected) + 1 - n]], opts)

selected_labels(selected, opts) == selected_labels_in(sorted(selected), opts)

(* A confirm that asks for at least one option *)
on_callback_done_nonempty(ud, pers, i, q, labels) ==
  IF labels = << >> THEN Ret(Eff(ud, << <<"text", "invalid">> >>), "SURVEY_FLOW")
  ELSE IF q.has_other /\ has_other_selected(labels)
  THEN Ret(Eff(Put(set_answer(ud, q.id, labels), "waiting_other_for", q.id),
               << <<"text", "type_other_company">> >>), "SURVEY_FLOW")
  ELSE Ret(send_question(Put(set_answer(ud, q.id, labels), "q_index", i + 1), pers),
           "SURVEY_FLOW")

(* "mul_done": the labels are recorded for q = survey[i] *)
on_callback_done(ud, pers, i, q, labels) ==
  IF q.has_other /\ has_other_selected(labels)
  THEN Ret(Eff(Put(set_answer(ud, q.id, labels), "waiting_other_for", q.id),
               << <<"text", "type_other_company">> >>), "SURVEY_FLOW")
  ELSE Ret(send_question(Put(set_answer(ud, q.id, labels), "q_index", i + 1), pers),
           "SURVEY_FLOW")

(* on_callback at question q = survey[i] (options opts), after its loop *)
on_callback_q(ud, data, pers, lang, i, q, opts) ==
  \* --- REGION paging ---
  IF startswith(data, "regpage") /\ q.kind = "region" THEN
      IF ~ int_ok(data[2]) THEN Ret(Raise(ud, << >>, "ValueError"), "SURVEY_FLOW")
      ELSE Ret(Eff(Put(ud, "region_page", int(data[2])), << <<"markup", "regions">> >>),
               "SURVEY_FLOW")
  \* --- REGION select ---
  ELSE IF startswith(data, "reg") /\ q.kind = "region" THEN
      IF region_by_id(data[2]) = {} THEN Ret(Eff(ud, << <<"text", "invalid">> >>), "SURVEY_FLOW")
      ELSE IF ~ has_answers(ud) THEN Ret(Raise(ud, << >>, "KeyError"), "SURVEY_FLOW")
      ELSE Ret(send_question(
                 Put(Put(set_answer(set_answer(ud, "region_city_id", data[2]), q.id,
                                    region_label(UZB_REGIONS[min_of(region_by_id(data[2]))], lang)),
                         "region_page", 0),
                     "q_index", i + 1),
                 pers),
               "SURVEY_FLOW")
  \* --- single choice ---
  ELSE IF startswith(data, "ans") /\ q.kind = "choice" THEN
      IF Len(data) = 3 /\ data[2] # q.id THEN Ret(Eff(ud, << >>), "SURVEY_FLOW")
      ELSE IF ~ (Len(data) = 2 \/ (Len(data) = 3 /\ isdigit(data[3]) /\ int(data[3]) < Len(opts)))
           THEN Ret(Eff(ud, << <<"text", "invalid">> >>), "SURVEY_FLOW")
      ELSE IF ~ has_answers(ud) THEN Ret(Raise(ud, << >>, "KeyError"), "SURVEY_FLOW")
      ELSE on_callback_ans(ud, pers, lang, i, q,
                           IF Len(data) = 3 THEN opts[int(data[3]) + 1] ELSE data[2])
  \* --- multi toggle ---
  ELSE IF startswith(data, "mul") /\ q.kind = "multi" THEN
      IF Len(data) # 3 THEN Ret(Raise(ud, << >>, "ValueError"), "SURVEY_FLOW")
      ELSE IF data[2] # q.id THEN Ret(Eff(ud, << >>), "SURVEY_FLOW")
      ELSE Ret(Eff(Put(ud, multi_key(q.id),
                       on_callback_mul(normalize_multi_selection(Get(ud, multi_key(q.id), {}), opts),
                                       data[3], q, opts)),
                   << <<"markup", q.id>> >>),
               "SURVEY_FLOW")
  \* --- multi done ---
  ELSE IF startswith(data, "mul_done") /\ q.kind = "multi" THEN
      IF data[2] # q.id THEN Ret(Eff(ud, << >>), "SURVEY_FLOW")
      ELSE IF ~ has_answers(ud) THEN Ret(Raise(ud, << >>, "KeyError"), "SURVEY_FLOW")
      ELSE on_callback_done(ud, pers, i, q,
                            selected_labels(normalize_multi_selection(Get(ud, multi_key(q.id), {}), opts),
                                            opts))
  ELSE Ret(Eff(ud, << <<"text", "invalid">> >>), "SURVEY_FLOW")

(* An on_callback whose toggle records the answer as well *)
on_callback_at_toggle_records(ud0, data, pers, lang, survey, i0, i) ==
  IF i >= Len(survey) THEN Ret(finalize(after_skip(ud0, i0, i), pers), "END")
  ELSE IF startswith(data, "mul") /\ survey[i + 1].kind = "multi" /\ has_answers(ud0)
  THEN Ret(Eff(set_answer(on_callback_q(after_skip(ud0, i0, i), data, pers, lang, i,
                                        survey[i + 1], options_of(survey[i + 1], lang)).eff.ud,
                          survey[i + 1].id, << >>),
               << <<"markup", survey[i + 1].id>> >>), "SURVEY_FLOW")
  ELSE on_callback_q(after_skip(ud0, i0, i), data, pers, lang, i, survey[i + 1],
                     options_of(survey[i + 1], lang))

(* An on_callback whose pagination consumes the region question *)
on_callback_at_page_advances(ud0, data, pers, lang, survey, i0, i) ==
  IF i >= Len(survey) THEN Ret(finalize(after_skip(ud0, i0, i), pers), "END")
  ELSE IF startswith(data, "regpage") /\ survey[i + 1].kind = "region" /\ int_ok(data[2])
  THEN Ret(Eff(Put(Put(after_skip(ud0, i0, i), "region_page", int(data[2])), "q_index", i + 1),
               << <<"markup", "regions">> >>), "SURVEY_FLOW")
  ELSE on_callback_q(after_skip(ud0, i0, i), data, pers, lang, i, survey[i + 1],
                     options_of(survey[i + 1], lang))

(* An on_callback that takes a three-field token as naming the question that
   is current, whatever id it carries *)
on_callback_at_any_id(ud0, data, pers, lang, survey, i0, i) ==
  IF i >= Len(survey) THEN Ret(finalize(after_skip(ud0, i0, i), pers), "END")
  ELSE on_callback_q(after_skip(ud0, i0, i),
                     IF Len(data) = 3 THEN <<data[1], survey[i + 1].id, data[3]>> ELSE data,
                     pers, lang, i, survey[i + 1], options_of(survey[i + 1], lang))

on_callback_at(ud0, data, pers, lang, survey, i0, i) ==
  IF i >= Len(survey) THEN Ret(finalize(after_skip(ud0, i0, i), pers), "END")
  ELSE on_callback_q(after_skip(ud0, i0, i), data, pers, lang, i, survey[i + 1],
                     options_of(survey[i + 1], lang))

on_callback(ud0, data, pers) ==
  IF data = <<"noop">> THEN Ret(Eff(ud0, << >>), "SURVEY_FLOW")
  ELSE on_callback_at(ud0, data, pers, get_lang(ud0), get_survey(ud0), Get(ud0, "q_index", 0),
                      skip(get_survey(ud0), Get(ud0, "q_index", 0),
                           Get(ud0, "answers", EmptyDict), get_lang(ud0)))

(* on_text while waiting_other_for is set *)
on_text_other(ud0, msg, pers, i0) ==
  IF msg = "" THEN Ret(Eff(ud0, << <<"text", "invalid">> >>), "SURVEY_FLOW")
  ELSE IF ~ has_answers(ud0) THEN Ret(Raise(ud0, << >>, "KeyError"), "SURVEY_FLOW")
  ELSE Ret(send_question(
             Put(Del(set_answer(ud0, ud0["waiting_other_for"],
                                replace_other(Get(ud0["answers"], ud0["waiting_other_for"], << >>),
                                              msg)),
                     "waiting_other_for"),
                 "q_index", i0 + 1),
             pers),
           "SURVEY_FLOW")

(* the value v is recorded for q = survey[i] *)
on_text_record(ud, pers, i, q, ok, v) ==
  IF ~ ok THEN Ret(Eff(ud, << <<"text", "invalid">> >>), "SURVEY_FLOW")
  ELSE IF ~ has_answers(ud) THEN Ret(Raise(ud, << >>, "KeyError"), "SURVEY_FLOW")
  ELSE Ret(send_question(Put(set_answer(ud, q.id, v), "q_index", i + 1), pers), "SURVEY_FLOW")

(* on_text at question q = survey[i], after its loop; n is
   normalize_number(msg).  No question of the source sets "min" or "max":
   the defaults of the "number" kind apply. *)
on_text_q(ud, msg, pers, i, q, n) ==
  IF q.kind = "text" THEN on_text_record(ud, pers, i, q, msg # "", msg)
  ELSE IF q.kind = "number"
       THEN on_text_record(ud, pers, i, q, n # -1 /\ n >= -(10 ^ 9) /\ n <= 10 ^ 9, n)
  ELSE IF q.kind = "percent"
       THEN on_text_record(ud, pers, i, q, n # -1 /\ n >= 0 /\ n <= 100, n)
  ELSE Ret(Eff(ud, << <<"text", "invalid">> >>), "SURVEY_FLOW")

on_text_at(ud0, msg, pers, survey, i0, i) ==
  IF i >= Len(survey) THEN Ret(finalize(after_skip(ud0, i0, i), pers), "END")
  ELSE on_text_q(after_skip(ud0, i0, i), msg, pers, i, survey[i + 1], normalize_number(msg))

on_text(ud0, text, pers) ==
  IF "waiting_other_for" \in DOMAIN ud0
  THEN on_text_other(ud0, strip(text), pers, Get(ud0, "q_index", 0))
  ELSE on_text_at(ud0, strip(text), pers, get_survey(ud0), Get(ud0, "q_index", 0),
                  skip(get_survey(ud0), Get(ud0, "q_index", 0),
                       Get(ud0, "answers", EmptyDict), get_lang(ud0)))

------------------------------------------------------------------------------
(* The respondent's inputs *)

(* Language picks: the three buttons of kb_lang and a "lang:xx" no button
   carries (callback data is chosen by the client). *)
LangInputs == {"uz", "ru", "en", "xx"}

(* Free text, before strip() *)
TextInputs == {" ", " Acme Corp "}

NoFailure == [db |-> TRUE, csv |-> TRUE, gs |-> "off", ack |-> TRUE]

(* The node on_callback and on_text act on: the first answerable node from
   q_index on; Len(survey) at the end of the graph. *)
position(ud) ==
  skip(get_survey(ud), Get(ud, "q_index", 0), Get(ud, "answers", EmptyDict), get_lang(ud))

at_question(ud) == position(ud) < Len(get_survey(ud))

current(ud) == get_survey(ud)[position(ud) + 1]

(* Questions whose recorded answer the code reads back: the branch question
   and the predicates of the conditional questions. *)
PolarIds ==
  ({AllQuestions[k].id : k \in {j \in 1..Len(AllQuestions) : AllQuestions[j].is_branch_question}}
   \cup {AllQuestions[k].conditional_on : k \in 1..Len(AllQuestions)}) \ {""}

(* Index fields of "ans" tokens for question q: valid indices (both
   polarities where the answer is read back, the first option elsewhere),
   an index beyond every option list and a non-numeric field. *)
AnsIndexInputs(q) == (IF q.id \in PolarIds THEN {"0", "1"} ELSE {"0"}) \cup {"7", "x"}

(* Questions at which the two-field form "ans:<text>" is tried *)
LabelAnswerAt == {"impulse_buying", "nu_impulse_buying"}

(* Option fields of "mul" tokens for question q *)
ToggleInputs(q) ==
  CASE q.id = "company_name" -> {"0", "10"}
    [] OTHER -> {}

StaleId == "gender"

(* The tokens tried at question q *)
QuestionInputs(q) ==
  {<<"ans", q.id, t>> : t \in AnsIndexInputs(q)}
  \cup {<<"ans", StaleId, "0">>}
  \cup (IF q.id \in LabelAnswerAt THEN {<<"ans", q.id>>} ELSE {})
  \cup {<<"mul", q.id, t>> : t \in ToggleInputs(q)}
  \cup {<<"mul_done", q.id>>}

CallbackInputs(ud) ==
  {<<"noop">>, <<"regpage", "1">>, <<"reg", "tk">>, <<"reg", "zz">>}
  \cup (IF at_question(ud) THEN QuestionInputs(current(ud)) ELSE {})

------------------------------------------------------------------------------
(* The state machine *)

Init ==
  /\ user_data = EmptyDict
  /\ conv = "END"
  /\ dispatched = 0
  /\ presented = << >>
  /\ peer = [ud |-> EmptyDict, conv |-> "END"]

(* The section headers and the questions among the messages msgs *)
Shown(msgs) == SelectSeq(msgs, LAMBDA m : m[1] \in {"section", "question"})

(* A handler is taken: its dictionary and the state it returns are kept.  An
   exception leaves the conversation state as it was and keeps what the
   handler wrote before it was raised. *)
Step(r, handler) ==
  /\ user_data' = r.eff.ud
  /\ conv' = IF r.ret = "RAISE" THEN conv ELSE r.ret
  /\ dispatched' = IF handler = "on_go_start" THEN r.eff.fin ELSE dispatched + r.eff.fin
  /\ presented' = IF handler \in {"cmd_start", "on_go_start"} THEN Shown(r.eff.msgs)
                  ELSE presented \o Shown(r.eff.msgs)
  /\ peer' = peer

(* The session a handler leaves depends on the outcome of the acknowledgment
   only, not on those of the writes: a step draws the former, when the
   handler reaches finalize. *)
AckOutcomes == {[NoFailure EXCEPT !.ack = a] : a \in BOOLEAN}

Run(H(_), handler) ==
  \E pers \in (IF H(NoFailure).eff.fin = 0 THEN {NoFailure}
               ELSE {p \in AckOutcomes : p.ack \/ dispatched < MaxAckFailures}) :
      Step(H(pers), handler)

(* /start: entry point and fallback of the conversation (allow_reentry) *)
CmdStart == Step(cmd_start(user_data), "cmd_start")

OnLang ==
  /\ conv = "LANG"
  /\ \E l \in LangInputs : Step(on_lang(user_data, <<"lang", l>>), "on_lang")

OnGoStart ==
  /\ conv = "SURVEY_FLOW"
  /\ LET H(pers) == on_go_start(user_data, pers) IN Run(H, "on_go_start")

OnCallback ==
  /\ conv = "SURVEY_FLOW"
  /\ \E data \in CallbackInputs(user_data) :
        LET H(pers) == on_callback(user_data, data, pers) IN Run(H, "on_callback")

OnText ==
  /\ conv = "SURVEY_FLOW"
  /\ \E text \in TextInputs :
        LET H(pers) == on_text(user_data, text, pers) IN Run(H, "on_text")

Next == CmdStart \/ OnLang \/ OnGoStart \/ OnCallback \/ OnText

Spec == Init /\ [][Next]_vars

------------------------------------------------------------------------------
(* A respondent who presses Start once and then answers whatever is asked
   with a valid action: a region of the list, an option index of the current
   question, a toggle or the confirm of the current multi-select question,
   and non-empty text once the "other" text has been asked for. *)

Started == conv = "SURVEY_FLOW" /\ "answers" \in DOMAIN user_data

(* finalize has run for the session *)
Dispatched == dispatched >= 1

Completed == Dispatched /\ user_data = EmptyDict

Pending == "waiting_other_for" \in DOMAIN user_data

ValidInputsAt(q) ==
  CASE q.kind = "region" -> {<<"reg", "tk">>}
    [] q.kind = "choice" -> {<<"ans", q.id, t>> : t \in AnsIndexInputs(q) \cap {"0", "1"}}
    [] q.kind = "multi" -> {<<"mul_done", q.id>>}
    [] OTHER -> {}

ValidInputs(ud) == ValidInputsAt(current(ud))

(* The states in which ValidAnswer, and OverrideText, can be taken *)
CanAnswer == Started /\ ~ Pending /\ at_question(user_data)

CanOverride == Started /\ Pending

PressStart ==
  /\ conv = "SURVEY_FLOW"
  /\ "answers" \notin DOMAIN user_data
  /\ dispatched = 0
  /\ OnGoStart

ValidToggle ==
  /\ CanAnswer
  /\ \E t \in ToggleInputs(current(user_data)) :
        LET H(pers) == on_callback(user_data, <<"mul", current(user_data).id, t>>, pers)
        IN  Run(H, "on_callback")

ValidAnswer ==
  /\ CanAnswer
  /\ \E data \in ValidInputs(user_data) :
        LET H(pers) == on_callback(user_data, data, pers) IN Run(H, "on_callback")

OverrideText ==
  /\ CanOverride
  /\ \E text \in {t \in TextInputs : strip(t) # ""} :
        LET H(pers) == on_text(user_data, text, pers) IN Run(H, "on_text")

NextValid ==
  \/ (conv = "END" /\ dispatched = 0 /\ CmdStart)
  \/ OnLang
  \/ PressStart
  \/ ValidToggle
  \/ ValidAnswer
  \/ OverrideText

(* The respondent keeps answering: a valid answer, and the text that was
   asked for, are eventually given.  This is weak fairness of ValidAnswer and
   of OverrideText, WF_vars(A) written out as []<>~ENABLED <<A>>_vars \/
   []<><<A>>_vars with the enabling condition stated by the action's guard
   (ActionAvailable below checks that the guard does enable the action). *)
SpecValid ==
  /\ Init /\ [][NextValid]_vars
  /\ ([]<>~CanAnswer \/ []<><<ValidAnswer>>_vars)
  /\ ([]<>~CanOverride \/ []<><<OverrideText>>_vars)

------------------------------------------------------------------------------
(* The same respondent, who in addition presses toggles at will at the
   complaint-reason question: each of its options, and an index that names
   none of them (a token no keyboard of that question carries). *)

FreeToggleAt == "complaint_reason"

FreeToggleInputs == {"0", "1", "2", "3", "4", "7"}

FreeToggle ==
  /\ CanAnswer
  /\ current(user_data).id = FreeToggleAt
  /\ \E t \in FreeToggleInputs :
        LET H(pers) == on_callback(user_data, <<"mul", FreeToggleAt, t>>, pers)
        IN  Run(H, "on_callback")

NextToggle == NextValid \/ FreeToggle

SpecToggle == Init /\ [][NextToggle]_vars

------------------------------------------------------------------------------
(* Two respondents.  The framework hands every handler the dictionary of the
   user the update comes from, and keeps one conversation state per user;
   updates are handled one at a time.  The first respondent answers validly;
   the second sends whatever the handlers take, up to the node
   MaxPeerPosition of the graph. *)

(* One dictionary for every respondent *)
ctx_shared(who) == user_data

ctx_user_data(who) == IF who = "a" THEN user_data ELSE peer.ud

MaxPeerPosition == 3

PeerKeep(r) ==
  /\ peer' = [ud |-> r.eff.ud, conv |-> IF r.ret = "RAISE" THEN peer.conv ELSE r.ret]
  /\ UNCHANGED <<user_data, conv, dispatched, presented>>

PeerStart == PeerKeep(cmd_start(ctx_user_data("b")))

PeerLang ==
  /\ peer.conv = "LANG"
  /\ \E l \in {"uz", "ru"} : PeerKeep(on_lang(ctx_user_data("b"), <<"lang", l>>))

PeerGoStart ==
  /\ peer.conv = "SURVEY_FLOW"
  /\ PeerKeep(on_go_start(ctx_user_data("b"), NoFailure))

PeerCallback ==
  /\ peer.conv = "SURVEY_FLOW"
  /\ position(peer.ud) <= MaxPeerPosition
  /\ \E d \in CallbackInputs(peer.ud) :
        PeerKeep(on_callback(ctx_user_data("b"), d, NoFailure))

PeerText ==
  /\ peer.conv = "SURVEY_FLOW"
  /\ position(peer.ud) <= MaxPeerPosition
  /\ \E t \in TextInputs : PeerKeep(on_text(ctx_user_data("b"), t, NoFailure))

NextTwo ==
  \/ NextValid
  \/ PeerStart
  \/ PeerLang
  \/ PeerGoStart
  \/ PeerCallback
  \/ PeerText

SpecTwo == Init /\ [][NextTwo]_vars

------------------------------------------------------------------------------
(* Properties *)

(* The results of the valid actions of the current state *)
ValidResults ==
  IF ~ Started THEN {}
  ELSE IF Pending
       THEN {on_text(user_data, t, p) : t \in {x \in TextInputs : strip(x) # ""}, p \in Outcomes}
       ELSE IF at_question(user_data)
            THEN {on_callback(user_data, d, p) : d \in ValidInputs(user_data), p \in Outcomes}
            ELSE {}

FinalizedAtEnd ==
  \A r \in ValidResults :
      r.eff.fin = 1 =>
          /\ "q_index" \in DOMAIN r.eff.entered
          /\ r.eff.entered["q_index"] = Len(get_survey(r.eff.entered))

(* In a started session that has not completed, a valid action is at hand
   and changes the session. *)
ActionAvailable ==
  (Started /\ ~ Dispatched) =>
      (CanAnswer \/ CanOverride) /\ \E r \in ValidResults : r.eff.ud # user_data

(* C1: a session started with Start whose respondent answers every presented
   question with a valid action eventually reaches completion (finalize
   runs), and whenever a valid action runs finalize, the q_index finalize is
   entered with equals the length of the effective graph of the branch
   taken. *)
C1_ValidSessionCompletes ==
  (Started ~> Dispatched) /\ [] (FinalizedAtEnd /\ ActionAvailable)

(* C1: the last valid answer of a session: finalize is about to run *)
C1_Witness == Started /\ \E r \in ValidResults : r.eff.fin = 1

------------------------------------------------------------------------------
(* What the respondent's inputs of the current state would do (Spec) *)

Handled(H(_)) ==
  LET r0 == H(NoFailure)
  IN  IF r0.eff.fin = 0 THEN {r0} ELSE {H(p) : p \in Outcomes}

CallbackResults ==
  UNION {LET H(p) == on_callback(user_data, d, p) IN Handled(H) :
           d \in CallbackInputs(user_data)}

TextResults ==
  UNION {LET H(p) == on_text(user_data, t, p) IN Handled(H) : t \in TextInputs}

StartResults == LET H(p) == on_go_start(user_data, p) IN Handled(H)

Results ==
  IF conv = "SURVEY_FLOW" THEN CallbackResults \cup TextResults \cup StartResults ELSE {}

(* r rejected the input: q_index, branch tag and recorded answers are as
   they were, and the same question is current *)
Rejected(r) ==
  /\ r.ret = "SURVEY_FLOW"
  /\ Get(r.eff.ud, "q_index", -1) = Get(user_data, "q_index", -1)
  /\ Get(r.eff.ud, "branch", "") = Get(user_data, "branch", "")
  /\ Get(r.eff.ud, "answers", EmptyDict) = Get(user_data, "answers", EmptyDict)
  /\ position(r.eff.ud) = position(user_data)

(* Tokens that are invalid at every answerable node: an option index beyond
   the list, a non-numeric index, a region id that is not in the list *)
InvalidTokens(ud) ==
  {<<"ans", current(ud).id, "7">>, <<"ans", current(ud).id, "x">>, <<"reg", "zz">>}

(* The "other" text has been asked for by the question that is current *)
Awaited ==
  Pending /\ at_question(user_data)
          /\ user_data["waiting_other_for"] = current(user_data).id

(* C2: in a started session, an invalid input at an answerable node (an
   out-of-range or non-numeric option index, an unknown region id, free text
   that no question asked for, empty text) leaves q_index, the branch tag
   and the recorded answers as they were, and the same question current. *)
C2_InvalidInputRejected ==
  (Started /\ at_question(user_data)) =>
      /\ \A d \in InvalidTokens(user_data) :
            Rejected(on_callback(user_data, d, NoFailure))
      /\ \A t \in TextInputs :
            (strip(t) = "" \/ ~ Awaited) => Rejected(on_text(user_data, t, NoFailure))

IsOption(q, lang, ans) ==
  \E n \in 1..Len(options_of(q, lang)) : options_of(q, lang)[n] = ans

(* C3: every recorded single-choice answer is the label of one of the
   question's options in the session language, and an "ans" token without
   an index part is rejected. *)
C3_ChoiceAnswerIsOption ==
  Started =>
      /\ \A k \in 1..Len(AllQuestions) :
            (AllQuestions[k].kind = "choice"
               /\ AllQuestions[k].id \in DOMAIN user_data["answers"]) =>
                IsOption(AllQuestions[k], get_lang(user_data),
                         user_data["answers"][AllQuestions[k].id])
      /\ (at_question(user_data) /\ current(user_data).kind = "choice") =>
            Rejected(on_callback(user_data, <<"ans", current(user_data).id>>, NoFailure))

Collaborators(r, to) == {n \in 1..Len(r.eff.saved) : r.eff.saved[n].to = to}

(* C4: finalize runs at most once per session (since Start was pressed), a
   handler runs it at most once and then hands the record once to the store
   and once to the backup file (and at most once to the sheet), and no
   started session rests at the end of its graph. *)
C4_DispatchedOnce ==
  /\ dispatched <= 1
  /\ (Started => at_question(user_data))
  /\ \A r \in Results :
        /\ r.eff.fin <= 1
        /\ r.eff.fin = 1 =>
              /\ Cardinality(Collaborators(r, "db")) = 1
              /\ Cardinality(Collaborators(r, "csv")) = 1
              /\ Cardinality(Collaborators(r, "gs")) <= 1
        /\ r.eff.fin = 0 => r.eff.saved = << >>

(* C5: after completion, a callback or a text changes nothing of the
   session and raises no error. *)
C5_CompletedIsInert ==
  (Completed /\ conv = "SURVEY_FLOW") =>
      \A r \in CallbackResults \cup TextResults :
          r.eff.ud = user_data /\ r.eff.err = "" /\ r.eff.fin = 0

(* The 0-based index of question qid in graph g *)
IndexIn(g, qid) == min_of({j \in 0..(Len(g) - 1) : g[j + 1].id = qid})

AtBranchQuestion ==
  Started /\ at_question(user_data) /\ current(user_data).is_branch_question

(* Option n (0-based) of the branch question is answered *)
BranchAnswer(n) ==
  on_callback(user_data, <<"ans", Q_EVER_USED.id, Numerals[n + 1]>>, NoFailure)

(* ud follows the branch question in the graph of tag b: the tag is b and
   only section headers lie between the branch question and q_index *)
FollowsBranch(ud, b) ==
  LET g == build_survey(b)
      j == IndexIn(g, Q_EVER_USED.id)
  IN  /\ Get(ud, "branch", "") = b
      /\ Get(ud, "q_index", -1) > j
      /\ Get(ud, "q_index", -1) < Len(g)
      /\ \A k \in (j + 1)..(Get(ud, "q_index", -1) - 1) : g[k + 1].kind = "section"

(* C6: a valid answer to the branch question sets the branch tag from the
   answer's polarity (first option: "yes", second option: "no"), in every
   language the session holds, and puts q_index right after the branch
   question in the graph of the new tag. *)
C6_BranchFromPolarity ==
  AtBranchQuestion =>
      /\ FollowsBranch(BranchAnswer(0).eff.ud, "yes")
      /\ FollowsBranch(BranchAnswer(1).eff.ud, "no")

(* The ids of the nodes of the positive branch, and those among them that
   are fields of the flat record *)
YesOnlyIds == {SURVEY_YES_BRANCH[k].id : k \in 1..Len(SURVEY_YES_BRANCH)}

YesOnlyFields == {n \in 1..Len(CSV_KEYS) : CSV_KEYS[n] \in YesOnlyIds}

(* The recorded answer to the branch question is the negative option shown *)
AnsweredNegatively ==
  /\ Started
  /\ "ever_used" \in DOMAIN user_data["answers"]
  /\ user_data["answers"]["ever_used"] = options_of(Q_EVER_USED, get_lang(user_data))[2]

(* C7: a negative answer to the branch question lands on heard_before; once
   it is recorded, no node of the positive branch is current, and the record
   handed over at completion has every positive-branch field empty. *)
C7_NegativeBranchOnly ==
  /\ AtBranchQuestion =>
        LET ud == BranchAnswer(1).eff.ud
        IN  at_question(ud) /\ current(ud).id = "heard_before"
  /\ AnsweredNegatively =>
        /\ Get(user_data, "branch", "") = "no"
        /\ at_question(user_data) => current(user_data).id \notin YesOnlyIds
        /\ \A r \in Results :
              r.eff.fin = 1 =>
                  \A m \in 1..Len(r.eff.saved) :
                      r.eff.saved[m].to = "csv" =>
                          \A n \in YesOnlyFields : r.eff.saved[m].row[n] = << >>

(* The question a conditional question depends on, and whether its recorded
   answer in ud is the affirmative option shown *)
Predicate(q) == AllQuestions[IndexIn(AllQuestions, q.conditional_on) + 1]

Affirmative(ud, q) ==
  /\ q.conditional_on \in DOMAIN Get(ud, "answers", EmptyDict)
  /\ ud["answers"][q.conditional_on] = options_of(Predicate(q), get_lang(ud))[1]

Conditionals == {k \in 1..Len(AllQuestions) : AllQuestions[k].conditional_on # ""}

(* C8: a conditional question is current only if the recorded answer to its
   predicate question is the affirmative option; a handler passes over a
   conditional question without presenting it only if that answer is not
   affirmative; and an answer to a conditional question is recorded only if
   the predicate answer is affirmative. *)
C8_ConditionalIffAffirmative ==
  Started =>
      /\ (at_question(user_data) /\ current(user_data).conditional_on # "") =>
            Affirmative(user_data, current(user_data))
      /\ \A r \in CallbackResults \cup TextResults :
            ("answers" \in DOMAIN r.eff.ud) =>
                \A k \in (position(user_data) + 1)..(position(r.eff.ud) - 1) :
                    get_survey(r.eff.ud)[k + 1].conditional_on # "" =>
                        ~ Affirmative(r.eff.ud, get_survey(r.eff.ud)[k + 1])
      /\ \A k \in Conditionals :
            AllQuestions[k].id \in DOMAIN user_data["answers"] =>
                Affirmative(user_data, AllQuestions[k])

AtMultiSelect ==
  Started /\ at_question(user_data) /\ current(user_data).kind = "multi"

Confirm == on_callback(user_data, <<"mul_done", current(user_data).id>>, NoFailure)

IsOther(label) == lower(label) \in other_labels

(* The "other" option of the current question is in the selection buffer *)
OtherBuffered ==
  LET opts == options_of(current(user_data), get_lang(user_data))
  IN  \E n \in Get(user_data, multi_key(current(user_data).id), {}) :
          n >= 0 /\ n < Len(opts) /\ IsOther(opts[n + 1])

(* C9: confirming a multi-select question that has the "other" escape with
   the "other" option selected records the labels, sets the marker to the
   question and leaves q_index; while the marker names the current question
   no callback moves the position; a confirm without the escape flag or
   without the "other" option sets no marker and advances the position. *)
C9_OtherEscapeHolds ==
  /\ AtMultiSelect =>
        LET q  == current(user_data)
            ud == Confirm.eff.ud
        IN  IF q.has_other /\ OtherBuffered
            THEN /\ Get(ud, "waiting_other_for", "") = q.id
                 /\ \E n \in 1..Len(ud["answers"][q.id]) : IsOther(ud["answers"][q.id][n])
                 /\ Get(ud, "q_index", -1) = Get(user_data, "q_index", -1)
                 /\ position(ud) = position(user_data)
            ELSE /\ Get(ud, "waiting_other_for", "") = Get(user_data, "waiting_other_for", "")
                 /\ position(ud) > position(user_data) \/ Confirm.eff.fin = 1
  /\ Awaited =>
        \A r \in CallbackResults : position(r.eff.ud) = position(user_data)

(* The session an "other" text leaves: the one finalize was entered with
   when the text ended the survey *)
Left(r) == IF r.eff.fin = 1 THEN r.eff.entered ELSE r.eff.ud

(* C10: while the marker is set, non-empty text replaces the "other" labels
   of the recorded list in place (same length, the other labels unchanged and
   where they were), clears the marker and moves q_index one node on and then
   over the nodes that are skipped; empty text is rejected and leaves the
   session as it was. *)
C10_OverrideReplacesInPlace ==
  (conv = "SURVEY_FLOW" /\ Pending) =>
      /\ "answers" \in DOMAIN user_data
      /\ \A t \in TextInputs :
            LET r   == on_text(user_data, t, NoFailure)
                wq  == user_data["waiting_other_for"]
                old == Get(user_data["answers"], wq, << >>)
                ud  == Left(r)
            IN  IF strip(t) = ""
                THEN /\ r.eff.ud = user_data
                     /\ r.ret = "SURVEY_FLOW"
                     /\ r.eff.msgs = << <<"text", "invalid">> >>
                ELSE /\ wq \in DOMAIN ud["answers"]
                     /\ Len(ud["answers"][wq]) = Len(old)
                     /\ \A n \in 1..Len(old) :
                           ud["answers"][wq][n] = IF IsOther(old[n]) THEN strip(t) ELSE old[n]
                     /\ \A k \in (DOMAIN user_data["answers"]) \ {wq} :
                           k \in DOMAIN ud["answers"] /\ ud["answers"][k] = user_data["answers"][k]
                     /\ "waiting_other_for" \notin DOMAIN ud
                     /\ ud["q_index"] =
                           skip(get_survey(ud), user_data["q_index"] + 1, ud["answers"], get_lang(ud))

(* C10: the text "Acme Corp" stands where the "other" label was recorded,
   next to the label that was selected with it, and the marker is cleared *)
C10_Witness ==
  /\ Started /\ ~ Pending
  /\ "company_name" \in DOMAIN user_data["answers"]
  /\ user_data["answers"]["company_name"] =
        <<options_of(AllQuestions[IndexIn(AllQuestions, "company_name") + 1],
                     get_lang(user_data))[1],
          "Acme Corp">>
  /\ at_question(user_data) /\ current(user_data).id = "avg_purchase"

------------------------------------------------------------------------------
(* The selection buffer of multi-select question q, as the set of its items
   (an absent buffer is the empty one) *)
Buffer(ud, q) == Get(ud, multi_key(q.id), {})

(* The selection the handlers read out of the buffer *)
Selection(ud, q) == normalize_multi_selection(Buffer(ud, q), options_of(q, get_lang(ud)))

(* The toggle of option field t of the current question *)
Toggle(ud, t) == on_callback(ud, <<"mul", current(ud).id, t>>, NoFailure)

(* The option fields a toggle can carry: a numeral, or an option's label *)
ToggleFields(ud) ==
  {Numerals[k] : k \in 1..Len(Numerals)} \cup {"99"}
  \cup {options_of(current(ud), get_lang(ud))[1]}

(* C11: at a multi-select question, toggling the same option field twice in
   a row leaves the selection buffer as it was before the first toggle, for
   every field the toggle can carry. *)
C11_ToggleTwiceRestores ==
  AtMultiSelect =>
      \A t \in ToggleFields(user_data) :
          Buffer(Toggle(Toggle(user_data, t).eff.ud, t).eff.ud, current(user_data))
            = Buffer(user_data, current(user_data))

(* C12: the buffer of every multi-select question holds at most max_select
   indices; at the cap, a toggle of an index that is not selected leaves the
   session as it was, raises nothing and sends no "invalid" message. *)
C12_BufferWithinCap ==
  /\ \A k \in 1..Len(AllQuestions) :
        AllQuestions[k].kind = "multi" =>
            Cardinality(Buffer(user_data, AllQuestions[k])) <= AllQuestions[k].max_select
  /\ (AtMultiSelect
        /\ Cardinality(Selection(user_data, current(user_data))) >= current(user_data).max_select) =>
        \A t \in {f \in ToggleFields(user_data) :
                    isdigit(f) /\ int(f) \notin Selection(user_data, current(user_data))} :
            /\ Toggle(user_data, t).eff.ud = user_data
            /\ Toggle(user_data, t).eff.err = ""
            /\ Toggle(user_data, t).eff.msgs = << <<"markup", current(user_data).id>> >>
            /\ Toggle(user_data, t).ret = "SURVEY_FLOW"

(* C12: every option of the current question is selected: the buffer is at
   the cap *)
C12_Witness ==
  /\ AtMultiSelect
  /\ Cardinality(Selection(user_data, current(user_data))) = current(user_data).max_select

------------------------------------------------------------------------------
(* C13: /start is taken in every state, and leaves the session empty (no
   language, branch tag, position, answers, buffer or marker) and the
   conversation awaiting the language. *)
C13_ResetClears ==
  /\ ENABLED CmdStart
  /\ cmd_start(user_data).eff.ud = EmptyDict
  /\ cmd_start(user_data).ret = "LANG"
  /\ cmd_start(user_data).eff.err = ""

(* C13: /start has been sent after a completion: the language is awaited
   with an empty session *)
C13_Witness == conv = "LANG" /\ user_data = EmptyDict /\ dispatched >= 1

------------------------------------------------------------------------------
(* The inputs of the current state, and what the handler of each does under
   the outcomes pers of finalize *)
FlowInputs ==
  {[h |-> "on_go_start", data |-> << >>]}
  \cup {[h |-> "on_callback", data |-> d] : d \in CallbackInputs(user_data)}
  \cup {[h |-> "on_text", data |-> <<t>>] : t \in TextInputs}

Apply(inp, pers) ==
  CASE inp.h = "on_go_start" -> on_go_start(user_data, pers)
    [] inp.h = "on_callback" -> on_callback(user_data, inp.data, pers)
    [] inp.h = "on_text" -> on_text(user_data, inp.data[1], pers)

(* The outcomes p with every write of a configured collaborator succeeding *)
Healthy(p) ==
  [p EXCEPT !.db = TRUE, !.csv = TRUE, !.gs = IF @ = "off" THEN "off" ELSE "ok"]

(* To whom r handed which record *)
Forwarded(r) ==
  [n \in 1..Len(r.eff.saved) |-> [to |-> r.eff.saved[n].to, row |-> r.eff.saved[n].row]]

(* C14: whichever writes of the store, the backup file and the sheet fail
   during completion, the record is handed to every configured collaborator
   and the respondent is sent what is sent when no write fails: the
   acknowledgment, unless its own sending fails. *)
C14_FailuresIsolated ==
  conv = "SURVEY_FLOW" =>
      \A inp \in FlowInputs :
          Apply(inp, NoFailure).eff.fin = 1 =>
              \A p \in Outcomes :
                  LET r == Apply(inp, p)
                      h == Apply(inp, Healthy(p))
                  IN  /\ Forwarded(r) = Forwarded(h)
                      /\ {r.eff.saved[n].to : n \in 1..Len(r.eff.saved)}
                            = {"db", "csv"} \cup (IF p.gs = "off" THEN {} ELSE {"gs"})
                      /\ r.eff.msgs = h.eff.msgs
                      /\ r.eff.ud = h.eff.ud
                      /\ r.ret = h.ret
                      /\ p.ack =>
                            /\ r.eff.msgs # << >>
                            /\ r.eff.msgs[Len(r.eff.msgs)] = <<"text", "saved">>

(* C14: an input of the current state runs finalize *)
C14_Witness ==
  conv = "SURVEY_FLOW" /\ \E inp \in FlowInputs : Apply(inp, NoFailure).eff.fin = 1

------------------------------------------------------------------------------
(* Question ids that tokens left over from other keyboards carry *)
OtherIds(q) == {"region_city", "gender", "usage_duration", "company_name"} \ {q.id}

(* Tokens that are stale or unrecognized while q is current: a choice, a
   toggle or a confirm of another question, a pagination or region token
   when q is not the region question, "noop", and unknown identifiers *)
StaleTokens(q) ==
  {<<"ans", o, "0">> : o \in OtherIds(q)}
  \cup {<<"mul", o, "0">> : o \in OtherIds(q)}
  \cup {<<"mul_done", o>> : o \in OtherIds(q)}
  \cup (IF q.kind = "region" THEN {} ELSE {<<"regpage", "1">>, <<"reg", "tk">>})
  \cup {<<"noop">>, <<"foo">>, <<"go", "back">>, <<"foo", q.id, "0">>}

(* C15: while a question is current, a token that is stale or unrecognized
   for it leaves the position, the branch tag, the answers, the buffers, the
   pagination cursor and the marker as they were (in a started session the
   whole session dictionary, elsewhere everything but the stored q_index,
   which the skip loop sets to the position), raises nothing and keeps the
   conversation in the survey flow. *)
C15_StaleTokenNoChange ==
  (conv = "SURVEY_FLOW" /\ at_question(user_data)) =>
      \A d \in StaleTokens(current(user_data)) :
          LET r == on_callback(user_data, d, NoFailure)
          IN  /\ position(r.eff.ud) = position(user_data)
              /\ Del(r.eff.ud, "q_index") = Del(user_data, "q_index")
              /\ Started => r.eff.ud = user_data
              /\ r.eff.err = ""
              /\ r.eff.fin = 0
              /\ r.ret = "SURVEY_FLOW"

(* C15: a choice question is current while a buffer, a moved pagination
   cursor and the marker are there to be changed *)
C15_Witness ==
  /\ Started /\ Pending /\ at_question(user_data)
  /\ current(user_data).kind = "choice"
  /\ Get(user_data, "multi:company_name", {}) # {}
  /\ Get(user_data, "region_page", 0) # 0

------------------------------------------------------------------------------
AtRegion ==
  Started /\ at_question(user_data) /\ current(user_data).kind = "region"

(* The label the region keyboard shows for region reg in language lang: the
   language's own, the Uzbek one when the language has none *)
DisplayedLabel(reg, lang) ==
  IF lang = "ru" THEN reg.ru ELSE IF lang = "en" THEN reg.en ELSE reg.uz

(* The session without the entries a region selection writes *)
BesidesRegion(ud) == Del(Del(Del(ud, "answers"), "region_page"), "q_index")

(* C16: while the region question is current, selecting a region of the
   list records the label the keyboard shows for it in the session language
   under the question id and its identifier under region_city_id, leaves
   the other answers, sets the pagination cursor to 0 and moves q_index and
   the position one node on; an identifier that is not in the list is
   answered with "invalid" and leaves the session as it was. *)
C16_RegionSelectRecords ==
  AtRegion =>
      /\ \A k \in 1..Len(UZB_REGIONS) :
            LET r == on_callback(user_data, <<"reg", UZB_REGIONS[k].id>>, NoFailure)
            IN  /\ r.eff.ud["answers"] =
                      Put(Put(user_data["answers"], "region_city_id", UZB_REGIONS[k].id),
                          current(user_data).id,
                          DisplayedLabel(UZB_REGIONS[k], get_lang(user_data)))
                /\ r.eff.ud["region_page"] = 0
                /\ r.eff.ud["q_index"] = position(user_data) + 1
                /\ position(r.eff.ud) = position(user_data) + 1
                /\ BesidesRegion(r.eff.ud) = BesidesRegion(user_data)
                /\ r.ret = "SURVEY_FLOW" /\ r.eff.err = "" /\ r.eff.fin = 0
      /\ \A rid \in {"zz", "", "TK"} :
            LET r == on_callback(user_data, <<"reg", rid>>, NoFailure)
            IN  /\ r.eff.ud = user_data
                /\ r.eff.msgs = << <<"text", "invalid">> >>
                /\ r.ret = "SURVEY_FLOW" /\ r.eff.err = ""

(* C16: the region question is current in a Russian session whose
   pagination cursor has been moved *)
C16_Witness ==
  AtRegion /\ get_lang(user_data) = "ru" /\ Get(user_data, "region_page", 0) = 1

(* Page fields of pagination tokens *)
PageFields == {"0", "1", "5", "-1"}

(* C17: while the region question is current, a pagination action sets the
   pagination cursor to its page and changes nothing else of the session
   (q_index, branch tag, answers), also when it follows another pagination
   action. *)
C17_PagingMovesCursorOnly ==
  AtRegion =>
      \A a \in PageFields, b \in PageFields :
          LET r1 == on_callback(user_data, <<"regpage", a>>, NoFailure)
              r2 == on_callback(r1.eff.ud, <<"regpage", b>>, NoFailure)
          IN  /\ r1.eff.ud = Put(user_data, "region_page", int(a))
              /\ r2.eff.ud = Put(user_data, "region_page", int(b))
              /\ r1.ret = "SURVEY_FLOW" /\ r2.ret = "SURVEY_FLOW"
              /\ r1.eff.err = "" /\ r2.eff.err = ""
              /\ r1.eff.fin = 0 /\ r2.eff.fin = 0

(* C17: a pagination action has moved the cursor and the region question is
   still to be answered *)
C17_Witness ==
  /\ AtRegion
  /\ Get(user_data, "region_page", 0) = 1
  /\ "region_city_id" \notin DOMAIN user_data["answers"]

------------------------------------------------------------------------------
BranchTags == {"yes", "no"}

(* The profile segment and the branch question of graph g, and what follows
   them *)
Prefix(g) == SubSeq(g, 1, Len(SURVEY_PROFILE) + 1)

Segment(g) == SubSeq(g, Len(SURVEY_PROFILE) + 2, Len(g))

Ids(g) == {g[k].id : k \in 1..Len(g)}

Count(g, qid) == Cardinality({k \in 1..Len(g) : g[k].id = qid})

(* C18: for both branch tags build_survey returns a graph that begins with
   the profile segment followed by the branch question, in that order, and
   holds each of them once; the graph a session uses is the one build_survey
   returns for its branch tag, which is "yes" or "no". *)
C18_SharedPrefix ==
  /\ \A b \in BranchTags :
        /\ Len(build_survey(b)) > Len(SURVEY_PROFILE)
        /\ Prefix(build_survey(b)) = SURVEY_PROFILE \o <<Q_EVER_USED>>
        /\ \A k \in 1..(Len(SURVEY_PROFILE) + 1) :
              Count(build_survey(b), build_survey(b)[k].id) = 1
  /\ Prefix(build_survey("yes")) = Prefix(build_survey("no"))
  /\ Get(user_data, "branch", "yes") \in BranchTags
  /\ get_survey(user_data) = build_survey(Get(user_data, "branch", "yes"))
  /\ Prefix(get_survey(user_data)) = SURVEY_PROFILE \o <<Q_EVER_USED>>

(* C18: the session has been rebound to the negative graph and is past its
   prefix *)
C18_Witness ==
  /\ Started /\ Get(user_data, "branch", "") = "no"
  /\ position(user_data) > Len(SURVEY_PROFILE)

(* C19: what follows the branch question in the "yes" graph and in the "no"
   graph shares no question id, every id is there once in the full graph
   (profile segment, branch question and both segments), and a question that
   is current past the branch question is none of the other graph. *)
C19_DisjointSegments ==
  /\ Ids(Segment(build_survey("yes"))) \cap Ids(Segment(build_survey("no"))) = {}
  /\ \A j \in 1..Len(AllQuestions), k \in 1..Len(AllQuestions) :
        AllQuestions[j].id = AllQuestions[k].id => j = k
  /\ Ids(AllQuestions) =
        Ids(Prefix(build_survey("yes"))) \cup Ids(Segment(build_survey("yes")))
          \cup Ids(Segment(build_survey("no")))
  /\ Len(AllQuestions) =
        Len(SURVEY_PROFILE) + 1 + Len(Segment(build_survey("yes")))
          + Len(Segment(build_survey("no")))
  /\ (at_question(user_data) /\ position(user_data) > Len(SURVEY_PROFILE)) =>
        \A b \in BranchTags \ {Get(user_data, "branch", "yes")} :
            current(user_data).id \notin Ids(build_survey(b))

(* C19: a question of the affirmative segment is current *)
C19_Witness ==
  /\ Started /\ Get(user_data, "branch", "") = "yes"
  /\ "ever_used" \in DOMAIN user_data["answers"]
  /\ at_question(user_data) /\ position(user_data) > Len(SURVEY_PROFILE)

(* C20: once finalize has run for a session, the session is cleared,
   whatever the outcomes of the writes and of the acknowledgment: a handler
   that runs finalize leaves an empty session, and no answers are there
   after finalize has run. *)
C20_ClearedAfterDispatch ==
  /\ Dispatched => "answers" \notin DOMAIN user_data
  /\ \A r \in Results : r.eff.fin = 1 => r.eff.ud = EmptyDict

------------------------------------------------------------------------------
(* What one handler can make of dictionary ud in conversation state cv, when
   no other respondent is there *)
Kept(r, cv) == [ud |-> r.eff.ud, conv |-> IF r.ret = "RAISE" THEN cv ELSE r.ret]

AloneSteps(ud, cv) ==
  {Kept(cmd_start(ud), cv)}
  \cup (IF cv = "LANG" THEN {Kept(on_lang(ud, <<"lang", l>>), cv) : l \in LangInputs} ELSE {})
  \cup (IF cv = "SURVEY_FLOW"
        THEN {Kept(on_go_start(ud, p), cv) : p \in AckOutcomes}
             \cup {Kept(on_callback(ud, d, p), cv) : d \in CallbackInputs(ud), p \in AckOutcomes}
             \cup {Kept(on_text(ud, t, p), cv) : t \in TextInputs, p \in AckOutcomes}
        ELSE {})

(* C21: an action of one respondent leaves the other's dictionary (language,
   branch tag, position, answers, buffers, marker) and conversation state as
   they were, and takes the respondent's own session where a handler takes it
   when the respondent is alone. *)
C21_SessionsIndependent ==
  [][/\ peer' # peer => UNCHANGED <<user_data, conv, dispatched, presented>>
     /\ <<user_data, conv>>' # <<user_data, conv>> => peer' = peer
     /\ peer' # peer => peer' \in AloneSteps(peer.ud, peer.conv)
     /\ <<user_data, conv>>' # <<user_data, conv>> =>
           [ud |-> user_data', conv |-> conv'] \in AloneSteps(user_data, conv)]_vars

(* C21: both respondents are in a started session, in different languages
   and at different nodes *)
C21_Witness ==
  /\ Started
  /\ peer.conv = "SURVEY_FLOW" /\ "answers" \in DOMAIN peer.ud
  /\ get_lang(peer.ud) # get_lang(user_data)
  /\ position(peer.ud) # position(user_data)
  /\ position(peer.ud) > 1 /\ position(user_data) > 1

------------------------------------------------------------------------------
(* The outcomes with the sheet configured and every write succeeding *)
AllWritten == [NoFailure EXCEPT !.gs = "ok"]

(* The record finalize hands to collaborator to for session ud *)
Record(ud, to) ==
  LET saved == finalize(ud, AllWritten).saved
  IN  saved[CHOOSE n \in 1..Len(saved) : saved[n].to = to].row

(* A session of branch b that has recorded nothing *)
OfBranch(b) == [k \in {"branch"} |-> b]

(* The question ids of the segment the branch tag b does not take *)
UnusedBy(b) ==
  IF b = "no" THEN YesOnlyIds
  ELSE {SURVEY_NO_BRANCH[k].id : k \in 1..Len(SURVEY_NO_BRANCH)}

(* The key of cell n of the record handed to collaborator to: the store is
   given every field but the timestamp *)
KeyOf(to, n) == CSV_KEYS[IF to = "db" THEN n + 1 ELSE n]

(* In the records r hands over, the fields the taken branch does not use
   are empty *)
UnusedEmpty(r) ==
  \A m \in 1..Len(r.eff.saved) :
      \A n \in 1..Len(r.eff.saved[m].row) :
          KeyOf(r.eff.saved[m].to, n) \in UnusedBy(Get(r.eff.entered, "branch", "yes")) =>
              r.eff.saved[m].row[n] = << >>

(* C22: the record handed over at completion is keyed by the one field list
   CSV_KEYS, in its order and at its length whichever branch was taken (the
   store gets all of it but the timestamp): a cell is empty when the session
   holds no answer under its key, and every field that the taken branch does
   not use is empty. *)
C22_FixedFieldList ==
  conv = "SURVEY_FLOW" =>
      \A inp \in FlowInputs :
          LET r == Apply(inp, AllWritten)
          IN  r.eff.fin = 1 =>
                  /\ \A m \in 1..Len(r.eff.saved) :
                        LET to  == r.eff.saved[m].to
                            row == r.eff.saved[m].row
                        IN  /\ Len(row) = Len(CSV_KEYS) - (IF to = "db" THEN 1 ELSE 0)
                            /\ \A b \in BranchTags : Len(row) = Len(Record(OfBranch(b), to))
                            /\ \A n \in 1..Len(row) :
                                  (row[n] # << >>) =>
                                      /\ KeyOf(to, n) \in DOMAIN r.eff.entered["answers"]
                                      /\ row[n] =
                                            IF KeyOf(to, n) \in ListKeys
                                            THEN r.eff.entered["answers"][KeyOf(to, n)]
                                            ELSE <<r.eff.entered["answers"][KeyOf(to, n)]>>
                  /\ UnusedEmpty(r)

(* C22 as stated: the length of the record's field list depends on the
   branch taken, and the fields the taken branch does not use are empty. *)
C22_FieldListByBranch ==
  conv = "SURVEY_FLOW" =>
      \A inp \in FlowInputs :
          LET r == Apply(inp, AllWritten)
          IN  r.eff.fin = 1 =>
                  /\ \A b \in BranchTags \ {Get(r.eff.entered, "branch", "yes")} :
                        Len(Record(r.eff.entered, "csv")) # Len(Record(OfBranch(b), "csv"))
                  /\ UnusedEmpty(r)

(* C22: an input completes a session of the negative branch that has
   recorded its answers *)
C22_Witness ==
  /\ Started /\ Get(user_data, "branch", "") = "no"
  /\ "heard_before" \in DOMAIN user_data["answers"]
  /\ \E inp \in FlowInputs : Apply(inp, AllWritten).eff.fin = 1

------------------------------------------------------------------------------
(* Percent input *)

(* Texts a respondent may send to a percent question *)
PercentTexts ==
  {"", " ", "abc", "-1", "101", "1 0 1", "0", "7", "100", " 100", " 5 0 "}

(* The integer a text denotes once its spaces are removed; -1 where it
   denotes no non-negative integer *)
PercentValue(t) ==
  CASE t = "0" -> 0
    [] t = "7" -> 7
    [] t = "100" -> 100
    [] t = " 100" -> 100
    [] t = " 5 0 " -> 50
    [] t = "101" -> 101
    [] t = "1 0 1" -> 101
    [] OTHER -> -1

(* Bounds a question dictionary may carry under "min" and "max" *)
ConfiguredBounds == {-5, 10, 200}

(* The current question as a percent question configured with mn and mx *)
PercentQuestion(q, mn, mx) ==
  [k \in DOMAIN q \cup {"min", "max"} |->
     IF k = "kind" THEN "percent"
     ELSE IF k = "min" THEN mn
     ELSE IF k = "max" THEN mx
     ELSE q[k]]

(* on_text with text t where the current question is a percent question *)
OnPercent(t, mn, mx) ==
  on_text_q(user_data, strip(t), NoFailure, position(user_data),
            PercentQuestion(current(user_data), mn, mx), normalize_number(strip(t)))

(* The current question is one whose answer no conditional question reads
   (should_skip_conditional applies str() to the answer it reads; the model
   keeps answers read that way as strings) *)
Unread ==
  \A k \in 1..Len(AllQuestions) : AllQuestions[k].conditional_on # current(user_data).id

(* C23: at a percent question a text is accepted exactly when, spaces removed,
   it is a non-negative integer literal of value 0..100, whatever "min" and
   "max" the question carries; an accepted text is recorded as that integer
   and the session advances, any other text is answered with the invalid
   message and changes nothing *)
C23_PercentBounds ==
  (Started /\ ~ Pending /\ at_question(user_data) /\ Unread) =>
    \A t \in PercentTexts : \A mn \in ConfiguredBounds : \A mx \in ConfiguredBounds :
      IF PercentValue(t) \in 0..100
      THEN /\ OnPercent(t, mn, mx).ret = "SURVEY_FLOW"
           /\ Left(OnPercent(t, mn, mx))["answers"][current(user_data).id] = PercentValue(t)
           /\ \/ OnPercent(t, mn, mx).eff.fin = 1
              \/ Left(OnPercent(t, mn, mx))["q_index"] > position(user_data)
      ELSE /\ OnPercent(t, mn, mx).ret = "SURVEY_FLOW"
           /\ OnPercent(t, mn, mx).eff.ud = user_data
           /\ OnPercent(t, mn, mx).eff.msgs = << <<"text", "invalid">> >>
           /\ OnPercent(t, mn, mx).eff.fin = 0

C23_Witness ==
  /\ Started /\ ~ Pending /\ at_question(user_data) /\ Unread
  /\ Get(user_data, "branch", "") = "no" /\ position(user_data) > 8
  /\ Left(OnPercent("100", 10, 10))["answers"][current(user_data).id] = 100
  /\ OnPercent("101", -5, 200).eff.ud = user_data

------------------------------------------------------------------------------
(* The administrator commands /export and /stats.  They are registered
   outside the conversation: they read and write no session, and the stores
   they read are given as a record
     pool  : the PostgreSQL pool was created
     fails : a query on the pool raises
     rows  : the number of rows of survey_responses_v3
     csv   : the backup file CSV_PATH is "absent", "empty" or has "rows". *)

ADMIN_IDS == {"admin"}

(* update.effective_user.id, 0 when the update carries no user *)
Callers == {"admin", "respondent", "0"}

MaxRows == 2

Stores ==
  [pool : BOOLEAN, fails : BOOLEAN, rows : 0..MaxRows, csv : {"absent", "empty", "rows"}]

(* get_stats: the dictionary it returns, {} without pool and on an error *)
get_stats(store) ==
  IF ~ store.pool \/ store.fails THEN EmptyDict
  ELSE [k \in {"total", "today", "week", "users_count", "non_users_count"} |-> store.rows]

(* export_db_to_csv: the path of the file it wrote, "" for None *)
export_db_to_csv(store) ==
  IF ~ store.pool \/ store.fails \/ store.rows = 0 THEN "" ELSE "/tmp/survey_export_v3.csv"

(* A command's reply and the stores it read *)
Reply(msgs, read) == [msgs |-> msgs, read |-> read]

cmd_export_open(ud, uid, store) ==
  IF export_db_to_csv(store) # ""
  THEN Reply(<< <<"document", "survey_export_v3.csv">> >>, {"db"})
  ELSE IF store.csv # "rows"
       THEN Reply(<< <<"text", "no_data">> >>, IF store.pool THEN {"db", "csv"} ELSE {"csv"})
       ELSE Reply(<< <<"document", "CSV_PATH">> >>, IF store.pool THEN {"db", "csv"} ELSE {"csv"})

cmd_export(ud, uid, store) ==
  IF uid \notin ADMIN_IDS THEN Reply(<< <<"text", "export_only_admin">> >>, {})
  ELSE IF export_db_to_csv(store) # ""
       THEN Reply(<< <<"document", "survey_export_v3.csv">> >>, {"db"})
  ELSE IF store.csv # "rows"
       THEN Reply(<< <<"text", "no_data">> >>, IF store.pool THEN {"db", "csv"} ELSE {"csv"})
       ELSE Reply(<< <<"document", "CSV_PATH">> >>, IF store.pool THEN {"db", "csv"} ELSE {"csv"})

cmd_stats(ud, uid, store) ==
  IF uid \notin ADMIN_IDS THEN Reply(<< <<"text", "export_only_admin">> >>, {})
  ELSE IF get_stats(store) = EmptyDict
       THEN Reply(<< <<"text", "no_data">> >>, IF store.pool THEN {"db"} ELSE {})
       ELSE Reply(<< <<"text", "statistics", get_stats(store)["total"]>> >>, {"db"})

(* C24: /export and /stats answer a caller who is not an administrator with
   the denial message and nothing else, and read neither the database nor
   the backup file, whatever the session and the stores hold *)
C24_DeniedWithoutRead ==
  \A uid \in Callers \ ADMIN_IDS : \A store \in Stores :
    /\ cmd_export(user_data, uid, store) = Reply(<< <<"text", "export_only_admin">> >>, {})
    /\ cmd_stats(user_data, uid, store) = Reply(<< <<"text", "export_only_admin">> >>, {})

C24_Witness ==
  /\ Started /\ position(user_data) > Len(SURVEY_PROFILE)
  /\ \E store \in Stores :
       /\ store.pool /\ ~ store.fails /\ store.rows > 0 /\ store.csv = "rows"
       /\ cmd_export(user_data, "respondent", store).read = {}
       /\ cmd_export(user_data, "admin", store).read # {}

(* The stores hold no response *)
EmptyStore(store) == store.rows = 0 /\ store.csv # "rows"

(* C25: for an administrator /export and /stats both answer with the no-data
   message, and with no file and no statistics, whenever the stores hold no
   response *)
C25_EmptyStoreNoData ==
  \A store \in Stores :
    EmptyStore(store) =>
      /\ cmd_export(user_data, "admin", store).msgs = << <<"text", "no_data">> >>
      /\ cmd_stats(user_data, "admin", store).msgs = << <<"text", "no_data">> >>

------------------------------------------------------------------------------
(* The node q_index references is a question the respondent can answer *)
Answerable(ud) ==
  /\ Get(ud, "q_index", 0) < Len(get_survey(ud))
  /\ get_survey(ud)[Get(ud, "q_index", 0) + 1].kind # "section"
  /\ ~ should_skip_conditional(get_survey(ud)[Get(ud, "q_index", 0) + 1],
                               Get(ud, "answers", EmptyDict), get_lang(ud))

(* C26: after every handled action of a started session, q_index references
   an answerable node of the graph in effect (no section header, no
   conditional question whose predicate is unmet), or the session has
   completed: finalize has run and q_index is past the last node *)
C26_PointerAnswerable ==
  Started =>
    \/ Answerable(user_data)
    \/ Dispatched /\ Get(user_data, "q_index", 0) >= Len(get_survey(user_data))

C26_Witness ==
  /\ Started /\ ~ Dispatched /\ Answerable(user_data)
  /\ "complaint_submitted" \in DOMAIN user_data["answers"]
  /\ ~ is_yes_answer(user_data["answers"]["complaint_submitted"], get_lang(user_data))
  /\ get_survey(user_data)[Get(user_data, "q_index", 0)].kind = "section"

------------------------------------------------------------------------------
(* The phase of a session: 0 no session yet, 1 AwaitingLanguage,
   2 AwaitingBranchDecision (from the language pick up to the answer of the
   branch question), 3 Traversing, 4 Completed *)
Phase(ud, cv, done) ==
  IF done >= 1 THEN 4
  ELSE IF cv = "LANG" THEN 1
  ELSE IF cv = "END" THEN 0
  ELSE IF "ever_used" \in DOMAIN Get(ud, "answers", EmptyDict) THEN 3
  ELSE 2

(* C27: the phase of a session never decreases, except by the reset /start,
   which leaves an empty session that awaits its language *)
C27_PhaseOrder ==
  [][Phase(user_data', conv', dispatched') < Phase(user_data, conv, dispatched)
       => (user_data' = EmptyDict /\ conv' = "LANG")]_vars

------------------------------------------------------------------------------
(* Section headers *)

(* What a walk of graph survey from its first node to node p shows: every
   section header, and every question that is not skipped, in graph order *)
Walk(survey, p, answers, lang) ==
  LET upto == SubSeq(survey, 1, IF p < Len(survey) THEN p + 1 ELSE Len(survey))
      kept == SelectSeq(upto, LAMBDA q : q.kind = "section"
                                         \/ ~ should_skip_conditional(q, answers, lang))
  IN  [n \in 1..Len(kept) |->
         IF kept[n].kind = "section" THEN <<"section", kept[n].text>>
         ELSE <<"question", kept[n].id>>]

Headers(msgs) == SelectSeq(msgs, LAMBDA m : m[1] = "section")

(* C28: in a traversal from Start to completion the headers and questions
   shown so far are the nodes of the graph in effect up to the current
   question, in graph order and each once (so every header is shown once and
   before the question that follows it); the current node is never a header;
   the action that completes the traversal has shown every header of the
   graph of the branch taken, once and in graph order *)
C28_HeadersOnceInOrder ==
  (Started /\ ~ Dispatched) =>
    /\ at_question(user_data) /\ current(user_data).kind # "section"
    /\ presented = Walk(get_survey(user_data), position(user_data),
                        user_data["answers"], get_lang(user_data))
    /\ \A inp \in FlowInputs :
         Apply(inp, NoFailure).eff.fin = 1 =>
           Headers(presented \o Shown(Apply(inp, NoFailure).eff.msgs))
             = Headers(Walk(get_survey(Apply(inp, NoFailure).eff.entered),
                            Len(get_survey(Apply(inp, NoFailure).eff.entered)),
                            EmptyDict, "uz"))

C28_Witness ==
  /\ Started /\ ~ Dispatched
  /\ Len(Headers(presented)) >= 3
  /\ \E inp \in FlowInputs : Apply(inp, NoFailure).eff.fin = 1

------------------------------------------------------------------------------
(* Multi-select confirm *)

(* The confirm of the current question, and the answer it records *)
ConfirmOf(ud) == on_callback(ud, <<"mul_done", current(ud).id>>, NoFailure)

Recorded(ud) == Left(ConfirmOf(ud))["answers"][current(ud).id]

(* Sequence a lists the labels of the indices S in ascending index order *)
AscendingLabels(a, S, opts) ==
  /\ Len(a) = Cardinality(S)
  /\ \A k \in S : a[Cardinality({j \in S : j < k}) + 1] = opts[k + 1]

(* C29: at a multi-select question the confirm records the labels, in the
   session language, of exactly the option indices of the buffer, in
   ascending index order; the answer does not depend on the order in which
   two options were toggled *)
C29_ConfirmAscending ==
  AtMultiSelect =>
    /\ AscendingLabels(Recorded(user_data), Selection(user_data, current(user_data)),
                       options_of(current(user_data), get_lang(user_data)))
    /\ \A a \in {"0", "1", "4"} : \A b \in {"0", "1", "4"} :
         Recorded(Toggle(Toggle(user_data, a).eff.ud, b).eff.ud)
           = Recorded(Toggle(Toggle(user_data, b).eff.ud, a).eff.ud)

C29_Witness ==
  /\ AtMultiSelect
  /\ current(user_data).id = FreeToggleAt
  /\ Selection(user_data, current(user_data)) = {0, 2, 3}
  /\ Buffer(user_data, current(user_data)) = {0, 2, 3, 7}
  /\ Len(Recorded(user_data)) = 3

------------------------------------------------------------------------------
(* C30: from the creation of a session until its branch question has an
   answer, the session holds no branch tag *)
C30_BranchUnsetUntilAnswered ==
  "ever_used" \notin DOMAIN Get(user_data, "answers", EmptyDict)
    => "branch" \notin DOMAIN user_data

------------------------------------------------------------------------------
(* C31: whenever waiting_other_for is set it names the question at the
   current position, that question is a multi-select with the "other"
   escape, and the answer list recorded for it holds an "other" label *)
C31_MarkerNamesCurrent ==
  Pending =>
    /\ "answers" \in DOMAIN user_data
    /\ at_question(user_data)
    /\ current(user_data).id = user_data["waiting_other_for"]
    /\ current(user_data).kind = "multi" /\ current(user_data).has_other
    /\ current(user_data).id \in DOMAIN user_data["answers"]
    /\ has_other_selected(user_data["answers"][current(user_data).id])

------------------------------------------------------------------------------
(* The questions of graph survey before node p that the respondent was to
   answer: no section header, no conditional question whose predicate is
   unmet *)
Passed(survey, p, answers, lang) ==
  {survey[k] : k \in {j \in 1..(IF p < Len(survey) THEN p ELSE Len(survey)) :
                        /\ survey[j].kind # "section"
                        /\ ~ should_skip_conditional(survey[j], answers, lang)}}

AllAnswered(ud) ==
  \A q \in Passed(get_survey(ud), Get(ud, "q_index", 0), Get(ud, "answers", EmptyDict),
                   get_lang(ud)) :
    q.id \in DOMAIN Get(ud, "answers", EmptyDict)

(* C32: in every state of a started session, and in the session a handler
   dispatches at completion, every answerable question of the graph in
   effect that lies before q_index, and whose conditional predicate holds,
   has a recorded answer *)
C32_NoAdvanceWithoutAnswer ==
  /\ Started => AllAnswered(user_data)
  /\ \A inp \in FlowInputs :
       Apply(inp, NoFailure).eff.fin = 1 => AllAnswered(Apply(inp, NoFailure).eff.entered)

------------------------------------------------------------------------------
(* The fields on_go_start puts into a fresh answers dictionary *)
Metadata == {"timestamp", "user_id", "username", "language"}

(* A session as a press of Start is to leave it *)
Clean(ud) ==
  /\ "answers" \in DOMAIN ud /\ DOMAIN ud["answers"] = Metadata
  /\ Get(ud, "q_index", 0) = skip(get_survey(ud), 0, EmptyDict, get_lang(ud))
  /\ Answerable(ud)
  /\ \A k \in 1..Len(AllQuestions) :
       AllQuestions[k].kind = "multi" => Get(ud, multi_key(AllQuestions[k].id), {}) = {}
  /\ "waiting_other_for" \notin DOMAIN ud

(* C33: every press of Start, also one in the middle of a survey, leaves a
   clean session: q_index at the first answerable node, answers that hold the
   metadata fields only, every multi-select buffer empty, no
   waiting_other_for *)
C33_StartIsClean ==
  conv = "SURVEY_FLOW" => Clean(on_go_start(user_data, NoFailure).eff.ud)

------------------------------------------------------------------------------
(* C34: the language a session holds is one of uz, ru and en, so that of the
   two labels shown for the branch question the first is recognised as the
   affirmative and the second as the negative answer *)
C34_LanguageSupported ==
  "lang" \in DOMAIN user_data =>
    /\ user_data["lang"] \in {"uz", "ru", "en"}
    /\ is_yes_answer(options_of(Q_EVER_USED, get_lang(user_data))[1], get_lang(user_data))
    /\ is_no_answer(options_of(Q_EVER_USED, get_lang(user_data))[2], get_lang(user_data))

------------------------------------------------------------------------------
(* The branch question has its answer *)
Decided(ud) == "ever_used" \in DOMAIN Get(ud, "answers", EmptyDict)

(* The step is the reset /start, or runs finalize *)
ResetOrCompletion ==
  \/ user_data' = EmptyDict
  \/ dispatched' > dispatched

(* The answers recorded before the branch question *)
ProfileAnswers(ud) ==
  [k \in DOMAIN ud["answers"] \cap (Ids(SURVEY_PROFILE) \cup {"region_city_id"} \cup Metadata)
     |-> ud["answers"][k]]

(* C35: once the branch question has its answer, the branch tag and that
   answer stay as they are until the reset or the completion; the answer of
   the branch question changes no answer recorded before it *)
C35_BranchFixed ==
  [][/\ (Decided(user_data) /\ ~ ResetOrCompletion) =>
          /\ Decided(user_data')
          /\ user_data'["answers"]["ever_used"] = user_data["answers"]["ever_used"]
          /\ user_data'["branch"] = user_data["branch"]
     /\ (Started /\ ~ Decided(user_data) /\ Decided(user_data')) =>
          ProfileAnswers(user_data') = ProfileAnswers(user_data)]_vars

------------------------------------------------------------------------------
(* C36: a toggle at a multi-select question changes the selection buffer of
   that question and nothing else of the session: q_index, the branch tag,
   the answers, the buffers of the other questions and waiting_other_for are
   as before; the toggle runs no finalize and keeps the conversation in the
   survey *)
C36_ToggleFrame ==
  AtMultiSelect =>
    \A t \in ToggleFields(user_data) :
      /\ Del(Toggle(user_data, t).eff.ud, multi_key(current(user_data).id))
           = Del(user_data, multi_key(current(user_data).id))
      /\ Toggle(user_data, t).eff.fin = 0
      /\ Toggle(user_data, t).ret = "SURVEY_FLOW"

C36_Witness ==
  /\ AtMultiSelect /\ Pending
  /\ Buffer(user_data, current(user_data)) # {}
  /\ Buffer(Toggle(user_data, "0").eff.ud, current(user_data))
       # Buffer(user_data, current(user_data))

------------------------------------------------------------------------------
(* C37: the confirm of a multi-select question whose selection is empty is
   taken: the empty list is recorded as the answer of the question, the
   position moves past the question (or the survey completes), and no
   invalid message is sent *)
C37_EmptyConfirmAccepted ==
  (AtMultiSelect /\ Selection(user_data, current(user_data)) = {}) =>
    /\ current(user_data).id \in DOMAIN Left(ConfirmOf(user_data))["answers"]
    /\ Recorded(user_data) = << >>
    /\ ConfirmOf(user_data).ret = "SURVEY_FLOW"
    /\ \/ ConfirmOf(user_data).eff.fin = 1
       \/ position(ConfirmOf(user_data).eff.ud) > position(user_data)
    /\ \A n \in 1..Len(ConfirmOf(user_data).eff.msgs) :
         ConfirmOf(user_data).eff.msgs[n] # <<"text", "invalid">>

C37_Witness ==
  /\ AtMultiSelect /\ current(user_data).id = "usage_duration"
  /\ Buffer(user_data, current(user_data)) = {}
  /\ ConfirmOf(user_data).eff.ud["answers"]["usage_duration"] = << >>
  /\ current(ConfirmOf(user_data).eff.ud).id = "company_name"

------------------------------------------------------------------------------
(* The keys under which a traversal of the graph of branch b records answers *)
AnswerKeys(b) ==
  {build_survey(b)[k].id : k \in {j \in 1..Len(build_survey(b)) :
                                    build_survey(b)[j].kind # "section"}}
  \cup {"region_city_id"}

Fields == {CSV_KEYS[n] : n \in 1..Len(CSV_KEYS)}

(* C38: the id of every question of both graphs, and region_city_id, is a
   field of CSV_KEYS; the record forwarded at completion holds, under its
   field, every answer the session has recorded *)
C38_AnswersAreFields ==
  /\ \A b \in BranchTags : AnswerKeys(b) \subseteq Fields
  /\ conv = "SURVEY_FLOW" =>
       \A inp \in FlowInputs :
         Apply(inp, AllWritten).eff.fin = 1 =>
           \A k \in DOMAIN Apply(inp, AllWritten).eff.entered["answers"] :
             \E n \in 1..Len(CSV_KEYS) :
               /\ CSV_KEYS[n] = k
               /\ Record(Apply(inp, AllWritten).eff.entered, "csv")[n]
                    = cell(Apply(inp, AllWritten).eff.entered["answers"], k)

C38_Witness ==
  /\ Started /\ Get(user_data, "branch", "") = "yes"
  /\ "region_city_id" \in DOMAIN user_data["answers"]
  /\ "complaint_reason" \in DOMAIN user_data["answers"]
  /\ \E inp \in FlowInputs : Apply(inp, AllWritten).eff.fin = 1

------------------------------------------------------------------------------
(* kb_regions: the number of pages of the region list at 8 regions a page *)
max_page == (Len(UZB_REGIONS) + 8 - 1) \div 8

ValidPage(ud) == 0 <= Get(ud, "region_page", 0) /\ Get(ud, "region_page", 0) < max_page

(* C39: the stored region page is a page of the region list, 0 <=
   region_page < max_page, in every state and after a pagination with any
   page value its token can carry *)
C39_CursorValid ==
  /\ ValidPage(user_data)
  /\ AtRegion =>
       \A a \in PageFields :
         ValidPage(on_callback(user_data, <<"regpage", a>>, NoFailure).eff.ud)
====
